---- MODULE Spec2Model ----
(***************************************************************************)
(* pg_auto_failover: the failover control plane (monitor store, decision   *)
(* engine, keeper state loop, FSM catalog, event journal) and the          *)
(* pg_autoctl command line (option parsers and command handlers).          *)
(*                                                                         *)
(* The command line is modelled from src/bin/pg_autoctl.  The monitor and  *)
(* the keeper loop are not part of src/bin/pg_autoctl/cli_*.c: they are    *)
(* modelled from sections 3, 4 and 5 of the specification.                 *)
(***************************************************************************)
EXTENDS Integers, Sequences, FiniteSets, TLC

(***************************************************************************)
(* Bounds of the model.                                                    *)
(***************************************************************************)
MaxLSN == 1
MaxDown == 1
MaxSyncStandbys == 1
MaxArgs == 4

\* the group is a replicated pair: nodeIds in the order of registration
Nodes == {1, 2}

VARIABLES
    node,            \* monitor store: one record per nodeId
    keeper,          \* per node: the keeper agent and its local state file
    journal,         \* monitor store: the tail of the append-only event journal
    formation,       \* formation settings and per-group flags
    calm,            \* the environment has settled: healthy nodes, a reachable
                     \* monitor, no operator, every transition action succeeds
    ticks            \* per node: its latest consecutive ticks that each ended
                     \* with a transition still pending

gvars == <<node, keeper, journal, formation, calm, ticks>>

VARIABLES
    command,                \* the pg_autoctl command of the process
    argv,                   \* its command line
    optind,                 \* the index in argv of the next option to parse
    pc,                     \* "getopts", "done" (the parser returned), "exit"
    errors,                 \* the error count of the parser
    sslCommandLineOptions,  \* the SSL mode accepted so far
    ssl_flag,               \* the global that getopt_long sets for SSL options
    options,                \* the parser's local options
    keeperOptions,          \* global: the options published by `create postgres`
    monitorOptions,         \* global: the options published by `create monitor`
    exitCode,               \* the exit code of the process, -1 while it runs
    fatal,                  \* what the process printed before it exited
    printVersion,           \* cli_getopt_pgdata was given --version
    dropAndDestroy,         \* global: `drop` was given --destroy
    files,                  \* what is on disk under PGDATA and next to it
    trace,                  \* the effects of the command, in their order
    fileOptions,            \* the local options of the parser of `show file`
    showFileOptions,        \* global: the options published by `show file`
    showUriOptions,         \* global: the options of `show uri`
    eventCount,             \* global: --count of `show events`
    outputJSON,             \* global: --json was given
    query,                  \* the last call made to the monitor
    createAndRun            \* global: --run was given

cvars == <<command, argv, optind, pc, errors, sslCommandLineOptions, ssl_flag,
           options, keeperOptions, monitorOptions, exitCode, fatal,
           printVersion, dropAndDestroy, files, trace,
           fileOptions, showFileOptions, showUriOptions, eventCount, outputJSON,
           query, createAndRun>>

svars == <<fileOptions, showFileOptions, showUriOptions, eventCount, outputJSON,
           query>>

fvars == <<printVersion, dropAndDestroy, files, trace>>

vars == <<gvars, cvars>>

(***************************************************************************)
(* FSM catalog (spec 4.1).                                                 *)
(***************************************************************************)
NodeStates ==
    {"INIT", "SINGLE", "WAIT_PRIMARY", "PRIMARY", "JOIN_PRIMARY",
     "APPLY_SETTINGS", "DRAINING", "DEMOTE_TIMEOUT", "DEMOTED",
     "WAIT_STANDBY", "CATCHINGUP", "SECONDARY", "PREPARE_PROMOTION",
     "STOP_REPLICATION", "PREPARE_MAINTENANCE", "MAINTENANCE"}

Writable == {"SINGLE", "PRIMARY", "WAIT_PRIMARY", "JOIN_PRIMARY", "APPLY_SETTINGS"}

PromotionPath == {"PREPARE_PROMOTION", "STOP_REPLICATION"}

\* the closed set of legal (current, goal) pairs
Transitions ==
    {<<"INIT", "SINGLE">>, <<"SINGLE", "WAIT_PRIMARY">>,
     <<"WAIT_PRIMARY", "PRIMARY">>, <<"PRIMARY", "JOIN_PRIMARY">>,
     <<"JOIN_PRIMARY", "APPLY_SETTINGS">>, <<"PRIMARY", "APPLY_SETTINGS">>,
     <<"APPLY_SETTINGS", "PRIMARY">>,
     <<"INIT", "WAIT_STANDBY">>, <<"WAIT_STANDBY", "CATCHINGUP">>,
     <<"CATCHINGUP", "SECONDARY">>, <<"SECONDARY", "APPLY_SETTINGS">>,
     <<"APPLY_SETTINGS", "SECONDARY">>,
     <<"SECONDARY", "PREPARE_PROMOTION">>, <<"CATCHINGUP", "PREPARE_PROMOTION">>,
     <<"PREPARE_PROMOTION", "STOP_REPLICATION">>,
     <<"STOP_REPLICATION", "WAIT_PRIMARY">>,
     <<"SECONDARY", "PREPARE_MAINTENANCE">>,
     <<"PREPARE_MAINTENANCE", "MAINTENANCE">>, <<"MAINTENANCE", "SECONDARY">>,
     <<"DRAINING", "DEMOTE_TIMEOUT">>, <<"DEMOTED", "CATCHINGUP">>}
    \cup {<<w, "DRAINING">> : w \in Writable}
    \cup {<<s, "DEMOTED">> : s \in NodeStates \ {"DEMOTED"}}

(***************************************************************************)
(* Monitor store (spec 3, 4.2).                                            *)
(***************************************************************************)
NoStandbyNames == [k |-> 0, names |-> <<>>]

NoNode ==
    [registered |-> FALSE, currentState |-> "INIT", goalState |-> "INIT",
     candidatePriority |-> 0, replicationQuorum |-> FALSE,
     reportedLSN |-> 0, healthState |-> "unknown",
     syncStandbyNames |-> NoStandbyNames]

NoKeeper ==
    [currentState |-> "INIT",
     syncStandbyNames |-> NoStandbyNames]

Registered(s) == {m \in Nodes : s[m].registered}

IsHealthy(s, m) == s[m].registered /\ s[m].healthState = "good"

Min(a, b) == IF a <= b THEN a ELSE b

\* the elements of a set of node ids as a list, in nodeId order
RECURSIVE SortedSeq(_)
SortedSeq(S) ==
    IF S = {} THEN <<>>
    ELSE LET lo == CHOOSE x \in S : \A y \in S : x <= y
         IN <<lo>> \o SortedSeq(S \ {lo})

Range(q) == {q[i] : i \in 1..Len(q)}

(***************************************************************************)
(* Decision engine (spec 4.3).  Decide(s, f, a) is run by the monitor on   *)
(* every node_active call of node a, on the store s in which the           *)
(* observation of a has been recorded, with the formation settings f; it   *)
(* returns the goal state of every node of the group.                      *)
(***************************************************************************)

\* the quorum number not bounded by the number of names
ComputeStandbyNames_unbounded(s, f) ==
    LET eligible == {m \in Registered(s) :
                        s[m].replicationQuorum /\ s[m].currentState = "SECONDARY"}
    IN [k |-> f.numberSyncStandbys,
        names |-> SortedSeq(eligible)]

\* step 4: the synchronous_standby_names setting of the group,
\* ANY k (names): names are the replicationQuorum standbys in SECONDARY,
\* k is numberSyncStandbys bounded by the number of names
ComputeStandbyNames(s, f) ==
    LET eligible == {m \in Registered(s) :
                        s[m].replicationQuorum /\ s[m].currentState = "SECONDARY"}
    IN [k |-> Min(f.numberSyncStandbys, Cardinality(eligible)),
        names |-> SortedSeq(eligible)]

\* the election with candidatePriority ignored
Candidates_anyPriority(s, g) ==
    {m \in Registered(s) :
        /\ IsHealthy(s, m)
        /\ s[m].currentState \in {"SECONDARY", "CATCHINGUP"}
        /\ g[m] = s[m].currentState}

\* I2: the nodes that may be elected
Candidates(s, g) ==
    {m \in Registered(s) :
        /\ IsHealthy(s, m)
        /\ s[m].candidatePriority > 0
        /\ s[m].currentState \in {"SECONDARY", "CATCHINGUP"}
        /\ g[m] = s[m].currentState}

\* maximum reportedLSN, ties broken by lowest nodeId
Winner(s, C) ==
    CHOOSE w \in C :
        \A m \in C : \/ s[w].reportedLSN > s[m].reportedLSN
                     \/ s[w].reportedLSN = s[m].reportedLSN /\ w <= m

\* the promotion not waiting for the WAL of the peers
PromotionLSNReached_unchecked(s, a) == TRUE

\* promotion requires reportedLSN >= the reportedLSN of every healthy peer
PromotionLSNReached(s, a) ==
    \A m \in Registered(s) \ {a} :
        IsHealthy(s, m) => s[a].reportedLSN >= s[m].reportedLSN

\* the precondition left out: the promoted node never waits for the old primary
NoOtherWritable_unchecked(s, g, a) == TRUE

\* I1 as the precondition of the first writable state of the promotion path
NoOtherWritable(s, g, a) ==
    \A m \in Registered(s) \ {a} :
        s[m].currentState \notin Writable /\ g[m] \notin Writable

\* the primary of the group, as far as node a is concerned
HasPrimaryIn(s, g, a, states) ==
    \E p \in Registered(s) \ {a} :
        s[p].currentState \in states /\ g[p] \in Writable

\* step 3, third rule: the primary became unhealthy, begin the failover
BeginFailover(s) ==
    [m \in Nodes |->
        IF /\ s[m].registered
           /\ s[m].goalState \in Writable
           /\ s[m].currentState \in Writable
           /\ s[m].healthState = "bad"
           /\ Registered(s) \ {m} # {}
        THEN "DRAINING"
        ELSE s[m].goalState]

\* step 3, first rule: no node has the primary role, elect one
Elect(s, f, g) ==
    IF /\ ~f.failoverAborted
       /\ \A m \in Registered(s) : g[m] \notin Writable \cup PromotionPath
       /\ Candidates(s, g) # {}
    THEN [g EXCEPT ![Winner(s, Candidates(s, g))] = "PREPARE_PROMOTION"]
    ELSE g

\* the next goal of the calling node a along its own path
Advance(s, f, g, a) ==
    LET c == s[a].currentState
    IN CASE c \in Writable /\ g[a] = "DRAINING" -> "DRAINING"
         [] c = "DRAINING" -> "DEMOTE_TIMEOUT"
         [] c = "DEMOTE_TIMEOUT" -> "DEMOTED"
         [] c = "DEMOTED" ->
                IF HasPrimaryIn(s, g, a, Writable \ {"SINGLE"})
                THEN "CATCHINGUP" ELSE "DEMOTED"
         [] c = "SINGLE" ->
                IF \E m \in Registered(s) \ {a} : g[m] = "WAIT_STANDBY"
                THEN "WAIT_PRIMARY" ELSE "SINGLE"
         [] c = "WAIT_PRIMARY" ->
                IF \E m \in Registered(s) \ {a} :
                       s[m].currentState = "SECONDARY" /\ IsHealthy(s, m)
                THEN "PRIMARY" ELSE "WAIT_PRIMARY"
         [] c = "PRIMARY" ->
                IF \E m \in Registered(s) \ {a} : s[m].currentState = "WAIT_STANDBY"
                THEN "JOIN_PRIMARY" ELSE "PRIMARY"
         [] c = "JOIN_PRIMARY" ->
                IF \E m \in Registered(s) \ {a} : s[m].currentState = "WAIT_STANDBY"
                THEN "JOIN_PRIMARY" ELSE "APPLY_SETTINGS"
         [] c = "APPLY_SETTINGS" -> "PRIMARY"
         [] c = "WAIT_STANDBY" ->
                IF HasPrimaryIn(s, g, a, {"WAIT_PRIMARY", "JOIN_PRIMARY"})
                THEN "CATCHINGUP" ELSE "WAIT_STANDBY"
         [] c = "CATCHINGUP" /\ g[a] # "PREPARE_PROMOTION" ->
                IF \E p \in Registered(s) \ {a} :
                       /\ s[p].currentState \in Writable \ {"SINGLE"}
                       /\ g[p] \in Writable
                       /\ IsHealthy(s, p)
                       /\ s[a].reportedLSN >= s[p].reportedLSN
                THEN "SECONDARY" ELSE "CATCHINGUP"
         [] c = "PREPARE_PROMOTION" ->
                IF ~f.failoverAborted /\ PromotionLSNReached(s, a)
                THEN "STOP_REPLICATION" ELSE "PREPARE_PROMOTION"
         [] c = "STOP_REPLICATION" ->
                IF NoOtherWritable(s, g, a)
                THEN "WAIT_PRIMARY" ELSE "STOP_REPLICATION"
         [] OTHER -> g[a]

\* step 4: write the recomputed synchronous_standby_names to the primary
\* node's APPLY_SETTINGS goal when it changed
ApplySettings(s, f, g) ==
    [m \in Nodes |->
        IF /\ s[m].registered
           /\ s[m].currentState = "PRIMARY"
           /\ g[m] = "PRIMARY"
           /\ ComputeStandbyNames(s, f) # s[m].syncStandbyNames
        THEN "APPLY_SETTINGS"
        ELSE g[m]]

Decide(s, f, a) ==
    LET g1 == BeginFailover(s)
        g2 == [g1 EXCEPT ![a] = Advance(s, f, g1, a)]
        g3 == Elect(s, f, g2)
    IN ApplySettings(s, f, g3)

\* step 5: commit the goals and append one event per transition decided
CommitGoals(s, g) == [m \in Nodes |-> [s[m] EXCEPT !.goalState = g[m]]]

\* an event for every node on every call
Changed_everyNode(s, g) == Registered(s)

Changed(s, g) == {m \in Nodes : s[m].registered /\ g[m] # s[m].goalState}

\* a failover begun without any node elected is recorded as blocked
Description(s, g, m) ==
    IF /\ g[m] = "DRAINING"
       /\ \A x \in Registered(s) : g[x] \notin PromotionPath
    THEN "promotion blocked" ELSE "goal assigned"

RECURSIVE EventsOf(_, _, _)
EventsOf(s, g, q) ==
    IF q = <<>> THEN <<>>
    ELSE <<[nodeId |-> Head(q), prevState |-> s[Head(q)].goalState,
            newState |-> g[Head(q)],
            description |-> Description(s, g, Head(q))]>>
         \o EventsOf(s, g, Tail(q))

\* The journal is append-only and no decision reads it: the model keeps its
\* tail, the events appended by the latest transaction that appended any.
AppendEvents(j, s, g) ==
    IF Changed(s, g) = {} THEN j
    ELSE EventsOf(s, g, SortedSeq(Changed(s, g)))

(***************************************************************************)
(* Monitor operations.                                                     *)
(***************************************************************************)

\* register_node: the monitor allocates the next nodeId and assigns the
\* initial goal, SINGLE for the first node of the group, WAIT_STANDBY otherwise
InitialGoal(s) == IF Registered(s) = {} THEN "SINGLE" ELSE "WAIT_STANDBY"

RegisterNode(n, priority, quorum) ==
    /\ ~node[n].registered
    /\ \A m \in Nodes : m < n => node[m].registered
    /\ LET g == [m \in Nodes |->
                    IF m = n THEN InitialGoal(node) ELSE node[m].goalState]
           s == [node EXCEPT ![n] =
                    [NoNode EXCEPT !.registered = TRUE,
                                   !.candidatePriority = priority,
                                   !.replicationQuorum = quorum]]
       IN /\ node' = CommitGoals(s, g)
          /\ journal' = AppendEvents(journal, s, g)
    /\ keeper' = [keeper EXCEPT ![n] = NoKeeper]
    /\ UNCHANGED formation

\* what the keeper of node n observes and sends in node_active; lsn is the
\* WAL position read from the local Postgres
Observed(n, lsn) ==
    [nodeId |-> n, state |-> keeper[n].currentState, lsn |-> lsn,
     names |-> keeper[n].syncStandbyNames]

\* the WAL positions Postgres may be at: no WAL before initdb or basebackup,
\* and never behind the position of the previous heartbeat
ObservableLSN(n) ==
    IF keeper[n].currentState = "INIT" THEN {0}
    ELSE node[n].reportedLSN..MaxLSN

\* node_active: record the observation of node n in the store
RecordObservation(s, o) ==
    [s EXCEPT ![o.nodeId] =
        [@ EXCEPT !.currentState = o.state, !.reportedLSN = o.lsn,
                  !.syncStandbyNames = o.names, !.healthState = "good"]]

\* the monitor's health check: a node that has been silent for longer than
\* network_partition_timeout (it is down, or partitioned away) is declared
\* unhealthy; its next heartbeat makes it healthy again
HealthCheck(n) ==
    /\ node[n].registered
    /\ node[n].healthState # "bad"
    /\ Cardinality({m \in Registered(node) : node[m].healthState = "bad"}) < MaxDown
    /\ node' = [node EXCEPT ![n].healthState = "bad"]
    /\ UNCHANGED <<keeper, journal, formation>>

\* prepare_promotion_catchup expired while the candidate waits in
\* PREPARE_PROMOTION: the failover is aborted
PromotionCatchupTimeout(n) ==
    /\ node[n].registered
    /\ node[n].currentState = "PREPARE_PROMOTION"
    /\ node[n].goalState = "PREPARE_PROMOTION"
    /\ ~PromotionLSNReached(node, n)
    /\ ~formation.failoverAborted
    /\ formation' = [formation EXCEPT !.failoverAborted = TRUE]
    /\ UNCHANGED <<node, keeper, journal>>

(***************************************************************************)
(* Keeper state loop (spec 4.4) and transition executor.                   *)
(***************************************************************************)

\* the new state not written to the state file
Execute_notPersisted(n, c, g, names) == keeper[n]

\* the local effects of the action script of the transition (c, g)
Execute(n, c, g, names) ==
    [keeper[n] EXCEPT
        !.currentState = g,
        !.syncStandbyNames =
            IF g = "APPLY_SETTINGS" THEN names
            ELSE IF <<c, g>> \in {<<"INIT", "WAIT_STANDBY">>, <<"DEMOTED", "CATCHINGUP">>}
                 THEN NoStandbyNames
                 ELSE @]

\* the tick that takes the goal for reached whatever the action script did
KeeperTick_ignoresFailure(n, lsn, ok) ==
    /\ node[n].registered
    /\ lsn \in ObservableLSN(n)
    /\ \E s \in {RecordObservation(node, Observed(n, lsn))} :
       \E g \in {Decide(s, formation, n)} :
       LET c == keeper[n].currentState
       IN /\ node' = CommitGoals(s, g)
          /\ journal' = AppendEvents(journal, s, g)
          /\ keeper' = [keeper EXCEPT ![n] =
                IF g[n] # c /\ <<c, g[n]>> \in Transitions
                THEN Execute(n, c, g[n], ComputeStandbyNames(s, formation))
                ELSE @]
    /\ UNCHANGED formation

\* one tick of the keeper of node n: observe, call node_active, run the
\* transition to the assigned goal; ok tells whether the action script succeeds
KeeperTick(n, lsn, ok) ==
    /\ node[n].registered
    /\ lsn \in ObservableLSN(n)
    /\ \E s \in {RecordObservation(node, Observed(n, lsn))} :
       \E g \in {Decide(s, formation, n)} :
       LET c == keeper[n].currentState
       IN /\ node' = CommitGoals(s, g)
          /\ journal' = AppendEvents(journal, s, g)
          /\ keeper' = [keeper EXCEPT ![n] =
                IF g[n] # c /\ ok /\ <<c, g[n]>> \in Transitions
                THEN Execute(n, c, g[n], ComputeStandbyNames(s, formation))
                ELSE @]
    /\ UNCHANGED formation

\* one tick of the keeper in which the node_active call fails (the monitor is
\* down or cannot be reached): MonitorError is logged, nothing else happens
KeeperTickMonitorError(n) ==
    /\ node[n].registered
    /\ UNCHANGED <<node, keeper, journal, formation>>

(***************************************************************************)
(* Operator commands.                                                      *)
(***************************************************************************)
PerformFailover ==
    /\ ~formation.failoverAborted
    /\ \E p \in Registered(node) :
        /\ node[p].currentState = "PRIMARY"
        /\ node[p].goalState = "PRIMARY"
        /\ LET g0 == [m \in Nodes |-> node[m].goalState]
               C == Candidates(node, g0)
           IN /\ C # {}
              /\ LET g == [g0 EXCEPT ![p] = "DRAINING",
                                     ![Winner(node, C)] = "PREPARE_PROMOTION"]
                 IN /\ node' = CommitGoals(node, g)
                    /\ journal' = AppendEvents(journal, node, g)
    /\ UNCHANGED <<keeper, formation>>

(***************************************************************************)
(* The pg_autoctl command line: `create postgres` and `create monitor`.    *)
(*                                                                         *)
(* A command line is a sequence of options; an option is its long name and *)
(* the text of its argument ("" for an option that takes none).  The       *)
(* command lines of the model are made of the options that decide the      *)
(* outcome of a parse; the options that only copy their argument (--pgctl, *)
(* --pgdata, --listen, ...) are not part of them, and PGDATA is found in   *)
(* the environment.                                                        *)
(***************************************************************************)
Commands == {"create postgres", "create monitor"}

Option(name, value) == [name |-> name, value |-> value]

CommonArguments ==
    {Option("auth", "trust"), Option("auth", ""), Option("skip-pg-hba", ""),
     Option("ssl-self-signed", ""), Option("no-ssl", ""),
     Option("ssl-ca-file", "ca.crt"), Option("server-key", "server.key"),
     Option("ssl-mode", "require"), Option("ssl-mode", "bogus"),
     Option("help", ""), Option("version", ""), Option("bogus", "")}

Arguments(cmd) ==
    IF cmd = "create postgres"
    THEN CommonArguments \cup {Option("monitor", "postgres://monitor/pg_auto_failover"),
                               Option("monitor", "monitor:5432"),
                               Option("disable-monitor", "")}
    ELSE CommonArguments

\* the command lines of at most n options
RECURSIVE CommandLines(_, _)
CommandLines(cmd, n) ==
    IF n = 0 THEN {<<>>}
    ELSE LET shorter == CommandLines(cmd, n - 1)
         IN shorter \cup {Append(a, o) : a \in shorter, o \in Arguments(cmd)}

\* exit codes (spec 6)
EXIT_CODE_BAD_ARGS == 1
EXIT_CODE_QUIT == 127

\* cli_common.h: the values getopt_long stores in ssl_flag
SSL_CA_FILE_FLAG == 1
SSL_CRL_FILE_FLAG == 2
SSL_SERVER_CRT_FLAG == 3
SSL_SERVER_KEY_FLAG == 4
SSL_MODE_FLAG == 5

SSLCommandLineOptions ==
    {"SSL_CLI_UNKNOWN", "SSL_CLI_NO_SSL", "SSL_CLI_SELF_SIGNED",
     "SSL_CLI_USER_PROVIDED"}

\* the sslmode values of a connection string
SSLModes == {"disable", "allow", "prefer", "require", "verify-ca", "verify-full"}

pgsetup_parse_sslmode(sslMode) ==
    IF sslMode \in SSLModes THEN sslMode ELSE "SSL_MODE_UNKNOWN"

\* the connection strings that validate_connection_string accepts: URIs
validate_connection_string(pguri) ==
    pguri \in {"postgres://monitor/pg_auto_failover"}

\* KeeperConfig / MonitorConfig options = { 0 }
NoSSL ==
    [active |-> 0, createSelfSignedCert |-> FALSE,
     sslMode |-> "SSL_MODE_UNKNOWN", sslModeStr |-> "",
     caFile |-> "", crlFile |-> "", serverCert |-> "", serverKey |-> ""]

NoOptions ==
    [authMethod |-> "", monitor_pguri |-> "", monitorDisabled |-> FALSE,
     ssl |-> NoSSL, nodename |-> "", pgport |-> 0, formation |-> "",
     groupId |-> 0, candidatePriority |-> 0]

\* ShowFileOptions fileOptions = { 0 }, ShowUriOptions showUriOptions = { 0 }
NoFileOptions == [showFileContents |-> FALSE, selection |-> "SHOW_FILE_UNKNOWN"]

NoUriOptions == [monitorOnly |-> FALSE, formation |-> ""]

NoQuery == [call |-> "", formation |-> "", groupId |-> 0]

\* the globals of cli_show.c when the process starts
ShowIdle ==
    /\ fileOptions = NoFileOptions
    /\ showFileOptions = NoFileOptions
    /\ showUriOptions = NoUriOptions
    /\ eventCount = 10
    /\ outputJSON = FALSE
    /\ query = NoQuery

NoFiles == [config |-> "missing", state |-> FALSE, pgdata |-> FALSE,
            pid |-> "missing", pidValue |-> 0]

SKIP_HBA_AUTH_METHOD == "skip"
PG_AUTOCTL_MONITOR_DISABLED == "postgresql://autoctl_disabled"

\* an entry { name, has_arg, flag, val } of a long_options table: with a flag
\* getopt_long stores val in ssl_flag and returns 0, without it returns val
Long(flag, val) == [flag |-> flag, val |-> val]

cli_create_postgres_long_options ==
    [name \in {"auth", "skip-pg-hba", "monitor", "disable-monitor", "version",
               "help", "candidate-priority", "run", "no-ssl", "ssl-self-signed",
               "ssl-mode", "ssl-ca-file", "ssl-crl-file", "server-cert",
               "server-key"} |->
        CASE name = "auth" -> Long(FALSE, "A")
          [] name = "skip-pg-hba" -> Long(FALSE, "S")
          [] name = "monitor" -> Long(FALSE, "m")
          [] name = "disable-monitor" -> Long(FALSE, "M")
          [] name = "version" -> Long(FALSE, "V")
          [] name = "help" -> Long(FALSE, "h")
          [] name = "candidate-priority" -> Long(FALSE, "P")
          [] name = "run" -> Long(FALSE, "x")
          [] name = "no-ssl" -> Long(FALSE, "N")
          [] name = "ssl-self-signed" -> Long(FALSE, "s")
          [] name = "ssl-mode" -> Long(TRUE, SSL_MODE_FLAG)
          [] name = "ssl-ca-file" -> Long(TRUE, SSL_CA_FILE_FLAG)
          [] name = "ssl-crl-file" -> Long(TRUE, SSL_CRL_FILE_FLAG)
          [] name = "server-cert" -> Long(TRUE, SSL_SERVER_CRT_FLAG)
          [] name = "server-key" -> Long(TRUE, SSL_SERVER_KEY_FLAG)]

cli_create_monitor_long_options ==
    [name \in DOMAIN cli_create_postgres_long_options
                 \ {"monitor", "disable-monitor", "candidate-priority"} |->
        cli_create_postgres_long_options[name]]

\* getopt_long on one option: the character it returns ("0" stands for the
\* value 0 of an option with a flag, "?" is returned for an option that is
\* not in the table) and the value of ssl_flag afterwards
getopt_long(long_options, o, flag) ==
    IF o.name \notin DOMAIN long_options
    THEN [c |-> "?", ssl_flag |-> flag]
    ELSE IF long_options[o.name].flag
         THEN [c |-> "0", ssl_flag |-> long_options[o.name].val]
         ELSE [c |-> long_options[o.name].val, ssl_flag |-> flag]

\* cli_getopt_accept_ssl_options mutated: only a user-provided certificate
\* option conflicts with another mode
cli_getopt_accept_ssl_options_userOnly(newSSLOption, currentSSLOptions) ==
    \/ currentSSLOptions = "SSL_CLI_UNKNOWN"
    \/ currentSSLOptions = newSSLOption
    \/ /\ currentSSLOptions # "SSL_CLI_USER_PROVIDED"
       /\ newSSLOption # "SSL_CLI_USER_PROVIDED"

\* can the new SSL option be accepted, given the one already accepted
cli_getopt_accept_ssl_options(newSSLOption, currentSSLOptions) ==
    IF currentSSLOptions = "SSL_CLI_UNKNOWN"
    THEN TRUE
    ELSE IF currentSSLOptions # newSSLOption THEN FALSE ELSE TRUE

\* cli_getopt_ssl_flags(ssl_flag, optarg, pgSetup): the ssl settings
\* afterwards, and whether the option was understood
cli_getopt_ssl_flags(flag, optarg, ssl) ==
    CASE flag = SSL_CA_FILE_FLAG ->
            [ok |-> TRUE, ssl |-> [ssl EXCEPT !.caFile = optarg]]
      [] flag = SSL_CRL_FILE_FLAG ->
            [ok |-> TRUE, ssl |-> [ssl EXCEPT !.crlFile = optarg]]
      [] flag = SSL_SERVER_CRT_FLAG ->
            [ok |-> TRUE, ssl |-> [ssl EXCEPT !.serverCert = optarg]]
      [] flag = SSL_SERVER_KEY_FLAG ->
            [ok |-> TRUE, ssl |-> [ssl EXCEPT !.serverKey = optarg]]
      [] flag = SSL_MODE_FLAG ->
            [ok |-> pgsetup_parse_sslmode(optarg) # "SSL_MODE_UNKNOWN",
             ssl |-> [ssl EXCEPT !.sslModeStr = optarg,
                                 !.sslMode = pgsetup_parse_sslmode(optarg)]]
      [] OTHER -> [ok |-> FALSE, ssl |-> ssl]

\* the state of a parse after one pass of the option loop; exit is the exit
\* code when the pass ends the process, -1 otherwise
Pass(e, mode, o) == [errors |-> e, sslCommandLineOptions |-> mode,
                     options |-> o, exit |-> -1]

ExitPass(e, mode, o, code) == [errors |-> e, sslCommandLineOptions |-> mode,
                               options |-> o, exit |-> code]

\* SSLModeCase mutated: the SSL settings are assigned before the option is
\* checked against the mode accepted so far
SSLModeCase_setsFirst(newSSLOption, active, selfSigned, e, mode, o) ==
    LET o2 == [o EXCEPT !.ssl.active = active,
                        !.ssl.createSelfSignedCert = selfSigned]
    IN IF ~cli_getopt_accept_ssl_options(newSSLOption, mode)
       THEN Pass(e + 1, mode, o2)
       ELSE Pass(e, newSSLOption, o2)

\* --ssl-self-signed ('s') and --no-ssl ('N') in both parsers
SSLModeCase(newSSLOption, active, selfSigned, e, mode, o) ==
    IF ~cli_getopt_accept_ssl_options(newSSLOption, mode)
    THEN Pass(e + 1, mode, o)
    ELSE Pass(e, newSSLOption,
              [o EXCEPT !.ssl.active = active,
                        !.ssl.createSelfSignedCert = selfSigned])

\* SSLFlagCase mutated: --ssl-mode is checked and counted as a user-provided
\* certificate option
SSLFlagCase_modeIsUserProvided(flag, optarg, e, mode, o) ==
    IF ~cli_getopt_accept_ssl_options("SSL_CLI_USER_PROVIDED", mode)
    THEN Pass(e + 1, mode, o)
    ELSE LET o2 == [o EXCEPT !.ssl.active = 1]
             r == cli_getopt_ssl_flags(flag, optarg, o2.ssl)
         IN Pass(IF r.ok THEN e ELSE e + 1, "SSL_CLI_USER_PROVIDED",
                 [o2 EXCEPT !.ssl = r.ssl])

\* case 0 in both parsers: the options that getopt_long reports in ssl_flag
SSLFlagCase(flag, optarg, e, mode, o) ==
    IF flag # SSL_MODE_FLAG
          /\ ~cli_getopt_accept_ssl_options("SSL_CLI_USER_PROVIDED", mode)
    THEN Pass(e + 1, mode, o)
    ELSE LET mode2 == IF flag # SSL_MODE_FLAG
                      THEN "SSL_CLI_USER_PROVIDED" ELSE mode
             o2 == IF flag # SSL_MODE_FLAG
                   THEN [o EXCEPT !.ssl.active = 1] ELSE o
             r == cli_getopt_ssl_flags(flag, optarg, o2.ssl)
         IN Pass(IF r.ok THEN e ELSE e + 1, mode2, [o2 EXCEPT !.ssl = r.ssl])

\* --auth ('A') and --skip-pg-hba ('S') in both parsers
AuthCase(method, e, mode, o) ==
    Pass(IF o.authMethod # "" THEN e + 1 ELSE e, mode,
         [o EXCEPT !.authMethod = method])

\* the default of pgSetup.settings.candidatePriority
FAILOVER_NODE_CANDIDATE_PRIORITY == 100

\* the argument of --candidate-priority is a text, a sequence of characters
DigitOf(ch) ==
    CASE ch = "0" -> 0 [] ch = "1" -> 1 [] ch = "2" -> 2 [] ch = "3" -> 3
      [] ch = "4" -> 4 [] ch = "5" -> 5 [] ch = "6" -> 6 [] ch = "7" -> 7
      [] ch = "8" -> 8 [] ch = "9" -> 9 [] OTHER -> -1

\* an int is two halves of 16 bits
HalfInt == 65536

\* the digits of text from index i on, added to the number whose low 32 bits
\* are (hi, lo); end is the index of the first character that is not a digit
RECURSIVE strtol_digits(_, _, _, _)
strtol_digits(text, i, hi, lo) ==
    IF i > Len(text) \/ DigitOf(text[i]) = -1
    THEN [hi |-> hi, lo |-> lo, end |-> i]
    ELSE LET t == lo * 10 + DigitOf(text[i])
         IN strtol_digits(text, i + 1, (hi * 10 + t \div HalfInt) % HalfInt,
                          t % HalfInt)

\* int candidatePriority = strtol(optarg, NULL, 10), for a text whose number
\* fits a long: the long is truncated to its low 32 bits; without any digit
\* the result is 0 and strtol may set errno to EINVAL (einval)
strtol(text, einval) ==
    LET negative == Len(text) > 0 /\ text[1] = "-"
        start == IF Len(text) > 0 /\ text[1] \in {"-", "+"} THEN 2 ELSE 1
        r == strtol_digits(text, start, 0, 0)
        low == IF r.hi >= HalfInt \div 2
               THEN (r.hi - HalfInt) * HalfInt + r.lo
               ELSE r.hi * HalfInt + r.lo
    IN [value |-> IF negative THEN 0 - low ELSE low,
        errno |-> IF r.end = start /\ einval THEN "EINVAL" ELSE "0"]

\* --candidate-priority ('P')
CandidatePriorityCase(optarg, einval, e, mode, o) ==
    LET candidatePriority == strtol(optarg, einval).value
    IN IF \/ strtol(optarg, einval).errno = "EINVAL"
          \/ candidatePriority < 0
          \/ candidatePriority > 100
       THEN ExitPass(e, mode, o, EXIT_CODE_BAD_ARGS)
       ELSE Pass(e, mode, [o EXCEPT !.candidatePriority = candidatePriority])

\* the body of the option loop of cli_create_node_getopts
cli_create_node_getopts_case(c, flag, optarg, einval, e, mode, o) ==
    CASE c = "A" -> AuthCase(optarg, e, mode, o)
      [] c = "S" -> AuthCase(SKIP_HBA_AUTH_METHOD, e, mode, o)
      [] c = "m" -> IF ~validate_connection_string(optarg)
                    THEN ExitPass(e, mode, o, EXIT_CODE_BAD_ARGS)
                    ELSE Pass(e, mode, [o EXCEPT !.monitor_pguri = optarg])
      [] c = "M" -> Pass(e, mode, [o EXCEPT !.monitorDisabled = TRUE])
      [] c = "P" -> CandidatePriorityCase(optarg, einval, e, mode, o)
      [] c = "x" -> Pass(e, mode, o)
      [] c = "V" -> ExitPass(e, mode, o, 0)
      [] c = "h" -> ExitPass(e, mode, o, EXIT_CODE_QUIT)
      [] c = "x" -> Pass(e, mode, o)
      [] c = "s" -> SSLModeCase("SSL_CLI_SELF_SIGNED", 1, TRUE, e, mode, o)
      [] c = "N" -> SSLModeCase("SSL_CLI_NO_SSL", 0, FALSE, e, mode, o)
      [] c = "0" -> SSLFlagCase(flag, optarg, e, mode, o)
      [] OTHER -> Pass(e + 1, mode, o)

\* cli_create_monitor_getopts_case mutated: an unknown option is counted as
\* an error and the loop goes on
cli_create_monitor_getopts_case_counts(c, flag, optarg, e, mode, o) ==
    CASE c = "A" -> AuthCase(optarg, e, mode, o)
      [] c = "S" -> AuthCase(SKIP_HBA_AUTH_METHOD, e, mode, o)
      [] c = "V" -> ExitPass(e, mode, o, 0)
      [] c = "h" -> ExitPass(e, mode, o, EXIT_CODE_QUIT)
      [] c = "x" -> Pass(e, mode, o)
      [] c = "s" -> SSLModeCase("SSL_CLI_SELF_SIGNED", 1, TRUE, e, mode, o)
      [] c = "N" -> SSLModeCase("SSL_CLI_NO_SSL", 0, FALSE, e, mode, o)
      [] c = "0" -> SSLFlagCase(flag, optarg, e, mode, o)
      [] OTHER -> Pass(e + 1, mode, o)

\* the body of the option loop of cli_create_monitor_getopts
cli_create_monitor_getopts_case(c, flag, optarg, e, mode, o) ==
    CASE c = "A" -> AuthCase(optarg, e, mode, o)
      [] c = "S" -> AuthCase(SKIP_HBA_AUTH_METHOD, e, mode, o)
      [] c = "V" -> ExitPass(e, mode, o, 0)
      [] c = "h" -> ExitPass(e, mode, o, EXIT_CODE_QUIT)
      [] c = "x" -> Pass(e, mode, o)
      [] c = "s" -> SSLModeCase("SSL_CLI_SELF_SIGNED", 1, TRUE, e, mode, o)
      [] c = "N" -> SSLModeCase("SSL_CLI_NO_SSL", 0, FALSE, e, mode, o)
      [] c = "0" -> SSLFlagCase(flag, optarg, e, mode, o)
      [] OTHER -> ExitPass(e, mode, o, EXIT_CODE_BAD_ARGS)

\* the end of a parse by exit(code), after the message `message`
Exited(code, message, o) == [exit |-> code, fatal |-> message, options |-> o]

\* the end of a parse by return
Returned(o) == [exit |-> -1, fatal |-> "", options |-> o]

\* cli_create_node_getopts_checks mutated: --disable-monitor overrides a
\* --monitor URI instead of conflicting with it
cli_create_node_getopts_checks_disableWins(e, mode, o, sslValid, pathnamesSet) ==
    IF e > 0 THEN Exited(EXIT_CODE_BAD_ARGS, "commandline_help", o)
    ELSE IF o.authMethod = ""
    THEN Exited(EXIT_CODE_BAD_ARGS, "Please use either --auth or --skip-pg-hba", o)
    ELSE IF mode = "SSL_CLI_UNKNOWN"
    THEN Exited(EXIT_CODE_BAD_ARGS, "Explicit SSL choice is required", o)
    ELSE IF ~sslValid
    THEN Exited(EXIT_CODE_BAD_ARGS, "pgsetup_validate_ssl_settings", o)
    ELSE IF o.monitor_pguri = "" /\ ~o.monitorDisabled
    THEN Exited(EXIT_CODE_BAD_ARGS, "Failed to set the monitor URI", o)
    ELSE LET o2 == IF o.monitorDisabled
                   THEN [o EXCEPT !.monitor_pguri = PG_AUTOCTL_MONITOR_DISABLED]
                   ELSE o
         IN IF ~pathnamesSet
            THEN Exited(EXIT_CODE_BAD_ARGS,
                        "keeper_config_set_pathnames_from_pgdata", o2)
            ELSE Returned(o2)

\* cli_create_node_getopts after the option loop; sslValid is the result of
\* pgsetup_validate_ssl_settings and pathnamesSet the result of
\* keeper_config_set_pathnames_from_pgdata
cli_create_node_getopts_checks(e, mode, o, sslValid, pathnamesSet) ==
    IF e > 0 THEN Exited(EXIT_CODE_BAD_ARGS, "commandline_help", o)
    ELSE IF o.authMethod = ""
    THEN Exited(EXIT_CODE_BAD_ARGS, "Please use either --auth or --skip-pg-hba", o)
    ELSE IF mode = "SSL_CLI_UNKNOWN"
    THEN Exited(EXIT_CODE_BAD_ARGS, "Explicit SSL choice is required", o)
    ELSE IF ~sslValid
    THEN Exited(EXIT_CODE_BAD_ARGS, "pgsetup_validate_ssl_settings", o)
    ELSE IF o.monitor_pguri # "" /\ o.monitorDisabled
    THEN Exited(EXIT_CODE_BAD_ARGS, "Use either --monitor or --disable-monitor", o)
    ELSE IF o.monitor_pguri = "" /\ ~o.monitorDisabled
    THEN Exited(EXIT_CODE_BAD_ARGS, "Failed to set the monitor URI", o)
    ELSE LET o2 == IF o.monitorDisabled
                   THEN [o EXCEPT !.monitor_pguri = PG_AUTOCTL_MONITOR_DISABLED]
                   ELSE o
         IN IF ~pathnamesSet
            THEN Exited(EXIT_CODE_BAD_ARGS,
                        "keeper_config_set_pathnames_from_pgdata", o2)
            ELSE Returned(o2)

\* cli_create_monitor_getopts_checks mutated: no SSL choice is asked for
cli_create_monitor_getopts_checks_noChoice(e, mode, o, sslValid) ==
    IF e > 0 THEN Exited(EXIT_CODE_BAD_ARGS, "commandline_help", o)
    ELSE IF o.authMethod = ""
    THEN Exited(EXIT_CODE_BAD_ARGS, "Please use either --auth or --skip-pg-hba", o)
    ELSE IF ~sslValid
    THEN Exited(EXIT_CODE_BAD_ARGS, "pgsetup_validate_ssl_settings", o)
    ELSE Returned(o)

\* cli_create_monitor_getopts after the option loop
cli_create_monitor_getopts_checks(e, mode, o, sslValid) ==
    IF e > 0 THEN Exited(EXIT_CODE_BAD_ARGS, "commandline_help", o)
    ELSE IF o.authMethod = ""
    THEN Exited(EXIT_CODE_BAD_ARGS, "Please use either --auth or --skip-pg-hba", o)
    ELSE IF mode = "SSL_CLI_UNKNOWN"
    THEN Exited(EXIT_CODE_BAD_ARGS, "Explicit SSL choice is required", o)
    ELSE IF ~sslValid
    THEN Exited(EXIT_CODE_BAD_ARGS, "pgsetup_validate_ssl_settings", o)
    ELSE Returned(o)

\* the message of a pass of the option loop that ends the process
ExitMessage(c) ==
    IF c = "h" THEN "commandline_help"
    ELSE IF c = "V" THEN "keeper_cli_print_version"
    ELSE IF c = "m" THEN "Failed to parse --monitor connection string"
    ELSE IF c = "P" THEN "--candidate-priority argument is not valid"
    ELSE "commandline_help"

\* one pass of the option loop of a parser: g is what getopt_long returned
\* and r the state after the switch
OptionLoop(g, r) ==
    /\ ssl_flag' = g.ssl_flag
    /\ errors' = r.errors
    /\ sslCommandLineOptions' = r.sslCommandLineOptions
    /\ options' = r.options
    /\ optind' = optind + 1
    /\ createAndRun' = (createAndRun \/ g.c = "x")
    /\ IF r.exit = -1
       THEN UNCHANGED <<pc, exitCode, fatal>>
       ELSE /\ pc' = "exit"
            /\ exitCode' = r.exit
            /\ fatal' = ExitMessage(g.c)
    /\ UNCHANGED <<command, argv, keeperOptions, monitorOptions, fvars, svars,
                   gvars>>

\* the end of a parse: exit, or return and publish the options
ParseEnd(r, published) ==
    /\ options' = r.options
    /\ fatal' = r.fatal
    /\ IF r.exit = -1
       THEN /\ pc' = "done"
            /\ exitCode' = exitCode
            /\ published' = r.options
       ELSE /\ pc' = "exit"
            /\ exitCode' = r.exit
            /\ published' = published
    /\ UNCHANGED <<command, argv, optind, errors, sslCommandLineOptions, ssl_flag,
                   fvars, svars, createAndRun, gvars>>

\* cli_create_postgres_getopts: the option loop of cli_create_node_getopts
cli_create_node_getopts_loop ==
    /\ command = "create postgres"
    /\ pc = "getopts"
    /\ optind <= Len(argv)
    /\ LET g == getopt_long(cli_create_postgres_long_options, argv[optind],
                            ssl_flag)
       IN \E einval \in BOOLEAN :
             OptionLoop(g, cli_create_node_getopts_case(
                               g.c, g.ssl_flag, argv[optind].value, einval,
                               errors, sslCommandLineOptions, options))

\* cli_create_postgres_getopts: getopt_long returned -1
cli_create_postgres_getopts ==
    /\ command = "create postgres"
    /\ pc = "getopts"
    /\ optind > Len(argv)
    /\ \E sslValid \in BOOLEAN, pathnamesSet \in BOOLEAN :
          ParseEnd(cli_create_node_getopts_checks(
                       errors, sslCommandLineOptions, options, sslValid,
                       pathnamesSet), keeperOptions)
    /\ UNCHANGED monitorOptions

\* the option loop of cli_create_monitor_getopts
cli_create_monitor_getopts_loop ==
    /\ command = "create monitor"
    /\ pc = "getopts"
    /\ optind <= Len(argv)
    /\ LET g == getopt_long(cli_create_monitor_long_options, argv[optind],
                            ssl_flag)
       IN OptionLoop(g, cli_create_monitor_getopts_case(
                            g.c, g.ssl_flag, argv[optind].value,
                            errors, sslCommandLineOptions, options))

\* cli_create_monitor_getopts: getopt_long returned -1
cli_create_monitor_getopts ==
    /\ command = "create monitor"
    /\ pc = "getopts"
    /\ optind > Len(argv)
    /\ \E sslValid \in BOOLEAN :
          ParseEnd(cli_create_monitor_getopts_checks(
                       errors, sslCommandLineOptions, options, sslValid),
                   monitorOptions)
    /\ UNCHANGED keeperOptions

\* the values that cli_create_node_getopts gives to LocalOptionConfig before
\* the option loop
LocalOptionConfigDefaults ==
    [NoOptions EXCEPT !.groupId = -1,
                      !.candidatePriority = FAILOVER_NODE_CANDIDATE_PRIORITY]

\* the local options of the parser of a command, before the option loop
OptionDefaults(cmd) ==
    IF cmd = "create monitor" THEN NoOptions ELSE LocalOptionConfigDefaults

CliIdle ==
    /\ command = "none"
    /\ argv = <<>>
    /\ optind = 1
    /\ pc = "idle"
    /\ errors = 0
    /\ sslCommandLineOptions = "SSL_CLI_UNKNOWN"
    /\ ssl_flag = 0
    /\ options = NoOptions
    /\ keeperOptions = NoOptions
    /\ monitorOptions = NoOptions
    /\ exitCode = -1
    /\ fatal = ""
    /\ printVersion = FALSE
    /\ dropAndDestroy = FALSE
    /\ files = NoFiles
    /\ trace = <<>>
    /\ createAndRun = FALSE
    /\ ShowIdle

\* the process is started on a command line
CliInit ==
    /\ command \in Commands
    /\ argv \in CommandLines(command, MaxArgs)
    /\ optind = 1
    /\ pc = "getopts"
    /\ errors = 0
    /\ sslCommandLineOptions = "SSL_CLI_UNKNOWN"
    /\ ssl_flag = 0
    /\ options = OptionDefaults(command)
    /\ keeperOptions = NoOptions
    /\ monitorOptions = NoOptions
    /\ exitCode = -1
    /\ fatal = ""
    /\ printVersion = FALSE
    /\ dropAndDestroy = FALSE
    /\ files = NoFiles
    /\ trace = <<>>
    /\ createAndRun = FALSE
    /\ ShowIdle


GroupIdle ==
    /\ node = [n \in Nodes |-> NoNode]
    /\ keeper = [n \in Nodes |-> NoKeeper]
    /\ journal = <<>>
    /\ formation = [numberSyncStandbys |-> 0, failoverAborted |-> FALSE]
    /\ calm = FALSE
    /\ ticks = [n \in Nodes |-> 0]

Init == GroupIdle /\ CliInit

Next ==
    \/ cli_create_node_getopts_loop
    \/ cli_create_postgres_getopts
    \/ cli_create_monitor_getopts_loop
    \/ cli_create_monitor_getopts

Spec == Init /\ [][Next]_vars

(***************************************************************************)
(* The pg_autoctl command line: `drop node`, `drop monitor`, the commands  *)
(* parsed by cli_getopt_pgdata, and cli_pg_autoctl_reload.                 *)
(*                                                                         *)
(* files is what the command finds under PGDATA and next to it: the        *)
(* configuration file (by the role that ProbeConfigurationFileRole finds   *)
(* in it), the state file, the pid file and the data directory.  trace is  *)
(* the sequence of the effects of the command on its environment, in the   *)
(* order in which they took place.                                         *)
(***************************************************************************)
EXIT_CODE_BAD_CONFIG == 12
EXIT_CODE_BAD_STATE == 13
EXIT_CODE_MONITOR == 15
EXIT_CODE_PGCTL == 16
EXIT_CODE_INTERNAL_ERROR == 17

DropCommands == {"drop node", "drop monitor"}

DropArguments ==
    {Option("destroy", ""), Option("nodename", "node2"), Option("nodename", ""),
     Option("pgport", "5432"), Option("pgport", "0"),
     Option("help", ""), Option("version", ""), Option("bogus", "")}

PgdataArguments ==
    {Option("json", ""), Option("help", ""), Option("version", ""),
     Option("bogus", "")}

\* the command lines of at most n options among those of S
RECURSIVE CommandLinesOf(_, _)
CommandLinesOf(S, n) ==
    IF n = 0 THEN {<<>>}
    ELSE LET shorter == CommandLinesOf(S, n - 1)
         IN shorter \cup {Append(a, o) : a \in shorter, o \in S}

\* stringToInt on the decimal texts of the command lines
stringToInt(str) ==
    CASE str = "0" -> [ok |-> TRUE, number |-> 0]
      [] str = "5432" -> [ok |-> TRUE, number |-> 5432]
      [] str = "1" -> [ok |-> TRUE, number |-> 1]
      [] str = "-1" -> [ok |-> TRUE, number |-> -1]
      [] OTHER -> [ok |-> FALSE, number |-> 0]

ConfigRoles == {"PG_AUTOCTL_ROLE_MONITOR", "PG_AUTOCTL_ROLE_KEEPER",
                "PG_AUTOCTL_ROLE_UNKNOWN"}

\* what a `drop` command may find: a configuration file of some role, with
\* or without a state file, a data directory and a pid file of a running
\* pg_autoctl
DropFiles ==
    {NoFiles} \cup
    {[config |-> r, state |-> s, pgdata |-> d, pid |-> p, pidValue |-> 7] :
        r \in ConfigRoles, s \in BOOLEAN, d \in BOOLEAN,
        p \in {"missing", "unreadable", "readable"}}

cli_drop_node_long_options ==
    [name \in {"destroy", "nodename", "pgport", "version", "help"} |->
        CASE name = "destroy" -> Long(FALSE, "d")
          [] name = "nodename" -> Long(FALSE, "n")
          [] name = "pgport" -> Long(FALSE, "p")
          [] name = "version" -> Long(FALSE, "V")
          [] name = "help" -> Long(FALSE, "h")]

cli_getopt_pgdata_long_options ==
    [name \in {"json", "version", "help"} |->
        CASE name = "json" -> Long(FALSE, "J")
          [] name = "version" -> Long(FALSE, "V")
          [] name = "help" -> Long(FALSE, "h")]

\* the end of the process by exit(code), after the message `message`
Exit(code, message) ==
    /\ pc' = "exit"
    /\ exitCode' = code
    /\ fatal' = message

\* what a step of a command leaves alone
Untouched ==
    UNCHANGED <<command, argv, errors, sslCommandLineOptions, ssl_flag,
                monitorOptions, svars, createAndRun, gvars>>

\* one pass of the option loop of cli_drop_node_getopts
cli_drop_node_getopts_loop ==
    /\ command \in DropCommands
    /\ pc = "getopts"
    /\ optind <= Len(argv)
    /\ LET c == getopt_long(cli_drop_node_long_options, argv[optind], ssl_flag).c
           optarg == argv[optind].value
       IN /\ optind' = optind + 1
          /\ CASE c = "d" ->
                    /\ dropAndDestroy' = TRUE
                    /\ UNCHANGED <<options, pc, exitCode, fatal>>
               [] c = "n" ->
                    /\ options' = [options EXCEPT !.nodename = optarg]
                    /\ UNCHANGED <<dropAndDestroy, pc, exitCode, fatal>>
               [] c = "p" ->
                    IF ~stringToInt(optarg).ok
                    THEN /\ Exit(EXIT_CODE_BAD_ARGS,
                                 "--pgport argument is a valid port number")
                         /\ UNCHANGED <<options, dropAndDestroy>>
                    ELSE /\ options' = [options EXCEPT
                                           !.pgport = stringToInt(optarg).number]
                         /\ UNCHANGED <<dropAndDestroy, pc, exitCode, fatal>>
               [] c = "V" ->
                    /\ Exit(0, "keeper_cli_print_version")
                    /\ UNCHANGED <<options, dropAndDestroy>>
               [] c = "h" ->
                    /\ Exit(EXIT_CODE_QUIT, "commandline_help")
                    /\ UNCHANGED <<options, dropAndDestroy>>
               [] OTHER ->
                    /\ Exit(EXIT_CODE_BAD_ARGS, "commandline_help")
                    /\ UNCHANGED <<options, dropAndDestroy>>
    /\ UNCHANGED <<keeperOptions, printVersion, files, trace>>
    /\ Untouched

\* prepare_keeper_options: PGDATA is known, pathnamesSet is the result of
\* keeper_config_set_pathnames_from_pgdata; the exit code and message when
\* it exits, -1 when it returns
prepare_keeper_options(f, pathnamesSet) ==
    IF ~pathnamesSet
    THEN [exit |-> EXIT_CODE_BAD_ARGS,
          fatal |-> "keeper_config_set_pathnames_from_pgdata"]
    ELSE IF f.config = "missing"
    THEN [exit |-> EXIT_CODE_BAD_ARGS,
          fatal |-> "Expected configuration file does not exists"]
    ELSE [exit |-> -1, fatal |-> ""]

\* cli_drop_node_getopts: getopt_long returned -1
cli_drop_node_getopts ==
    /\ command \in DropCommands
    /\ pc = "getopts"
    /\ optind > Len(argv)
    /\ IF dropAndDestroy /\ (options.nodename # "" \/ options.pgport # 0)
       THEN /\ Exit(EXIT_CODE_BAD_ARGS,
                    "Please use either --nodename and --pgport or ---destroy")
            /\ UNCHANGED keeperOptions
       ELSE \E pathnamesSet \in BOOLEAN :
               LET r == prepare_keeper_options(files, pathnamesSet)
               IN IF r.exit # -1
                  THEN Exit(r.exit, r.fatal) /\ UNCHANGED keeperOptions
                  ELSE /\ keeperOptions' = options
                       /\ pc' = "run"
                       /\ UNCHANGED <<exitCode, fatal>>
    /\ UNCHANGED <<optind, options, printVersion, dropAndDestroy, files, trace>>
    /\ Untouched


\* one pass of the option loop of cli_getopt_pgdata
cli_getopt_pgdata_loop ==
    /\ command = "cli_getopt_pgdata"
    /\ pc = "getopts"
    /\ optind <= Len(argv)
    /\ LET c == getopt_long(cli_getopt_pgdata_long_options, argv[optind],
                            ssl_flag).c
       IN /\ optind' = optind + 1
          /\ CASE c = "J" ->
                    /\ outputJSON' = TRUE
                    /\ UNCHANGED <<printVersion, errors, pc, exitCode, fatal>>
               [] c = "V" ->
                    /\ printVersion' = TRUE
                    /\ UNCHANGED <<errors, pc, exitCode, fatal, outputJSON>>
               [] c = "h" ->
                    /\ Exit(EXIT_CODE_QUIT, "commandline_help")
                    /\ UNCHANGED <<printVersion, errors, outputJSON>>
               [] OTHER ->
                    /\ errors' = errors + 1
                    /\ UNCHANGED <<printVersion, pc, exitCode, fatal, outputJSON>>
    /\ UNCHANGED <<command, argv, sslCommandLineOptions, ssl_flag, options,
                   keeperOptions, monitorOptions, dropAndDestroy, files, trace,
                   fileOptions, showFileOptions, showUriOptions, eventCount,
                   query, createAndRun, gvars>>

\* cli_getopt_pgdata: getopt_long returned -1
cli_getopt_pgdata ==
    /\ command = "cli_getopt_pgdata"
    /\ pc = "getopts"
    /\ optind > Len(argv)
    /\ IF errors > 0
       THEN /\ Exit(EXIT_CODE_BAD_ARGS, "commandline_help")
            /\ UNCHANGED keeperOptions
       ELSE IF printVersion
       THEN /\ Exit(0, "keeper_cli_print_version")
            /\ UNCHANGED keeperOptions
       ELSE \E pathnamesSet \in BOOLEAN :
               LET r == prepare_keeper_options(files, pathnamesSet)
               IN IF r.exit # -1
                  THEN Exit(r.exit, r.fatal) /\ UNCHANGED keeperOptions
                  ELSE /\ keeperOptions' = options
                       /\ pc' = "done"
                       /\ UNCHANGED <<exitCode, fatal>>
    /\ UNCHANGED <<optind, options, printVersion, dropAndDestroy, files, trace>>
    /\ Untouched

\* cli_drop_local_node_next mutated: with --destroy the local destruction
\* comes first and the removal from the monitor last
cli_drop_local_node_next_destroysFirst(step, destroy) ==
    CASE step = "enter" -> "signal"
      [] step = "signal" -> IF destroy THEN "stop" ELSE "remove"
      [] step = "remove" -> IF destroy THEN "done" ELSE "stop"
      [] step = "stop" -> IF destroy THEN "rmtree" ELSE "done"
      [] step = "rmtree" -> "unlink"
      [] step = "unlink" -> "remove"

\* cli_drop_local_node_next mutated: the configuration file is removed
\* before PGDATA
cli_drop_local_node_next_unlinksFirst(step, destroy) ==
    CASE step = "enter" -> "signal"
      [] step = "signal" -> "remove"
      [] step = "remove" -> "stop"
      [] step = "stop" -> IF destroy THEN "unlink" ELSE "done"
      [] step = "unlink" -> "rmtree"
      [] step = "rmtree" -> "done"

\* cli_drop_local_node_next mutated: PGDATA is removed before Postgres is
\* stopped
cli_drop_local_node_next_removesFirst(step, destroy) ==
    CASE step = "enter" -> "signal"
      [] step = "signal" -> "remove"
      [] step = "remove" -> IF destroy THEN "rmtree" ELSE "stop"
      [] step = "rmtree" -> "stop"
      [] step = "stop" -> IF destroy THEN "unlink" ELSE "done"
      [] step = "unlink" -> "done"

\* cli_drop_local_node_next mutated: PGDATA and the configuration file are
\* removed without --destroy too
cli_drop_local_node_next_alwaysDestroys(step, destroy) ==
    CASE step = "enter" -> "signal"
      [] step = "signal" -> "remove"
      [] step = "remove" -> "stop"
      [] step = "stop" -> "rmtree"
      [] step = "rmtree" -> "unlink"
      [] step = "unlink" -> "done"

\* cli_drop_local_node_next mutated: the running pg_autoctl is signalled
\* after the removal from the monitor
cli_drop_local_node_next_signalsLater(step, destroy) ==
    CASE step = "enter" -> "remove"
      [] step = "remove" -> "signal"
      [] step = "signal" -> "stop"
      [] step = "stop" -> IF destroy THEN "rmtree" ELSE "done"
      [] step = "rmtree" -> "unlink"
      [] step = "unlink" -> "done"

\* the order of the steps of cli_drop_local_node, which for --destroy ends
\* with those of stop_postgres_and_remove_pgdata_and_config
cli_drop_local_node_next(step, destroy) ==
    CASE step = "enter" -> "signal"
      [] step = "signal" -> "remove"
      [] step = "remove" -> "stop"
      [] step = "stop" -> IF destroy THEN "rmtree" ELSE "done"
      [] step = "rmtree" -> "unlink"
      [] step = "unlink" -> "done"

\* a step of a command: on success the effect is recorded and the command
\* goes on with `next`, on failure the process exits
Step(ok, effect, next, code, message) ==
    IF ok
    THEN /\ trace' = Append(trace, effect)
         /\ pc' = next
         /\ UNCHANGED <<exitCode, fatal>>
    ELSE /\ Exit(code, message)
         /\ UNCHANGED trace

\* a step that has nothing to do
Skip(next) ==
    /\ pc' = next
    /\ UNCHANGED <<exitCode, fatal, trace>>

DropFrame ==
    /\ UNCHANGED <<optind, options, keeperOptions, printVersion, dropAndDestroy>>
    /\ Untouched

\* cli_drop_node, up to its call of cli_drop_node_from_monitor or
\* cli_drop_local_node
cli_drop_node ==
    /\ command = "drop node"
    /\ pc = "run"
    /\ LET config == keeperOptions
       IN CASE files.config = "missing" ->
                  Exit(EXIT_CODE_BAD_CONFIG,
                       "Failed to find expected configuration file")
            [] files.config = "PG_AUTOCTL_ROLE_MONITOR" ->
                  IF config.nodename = "" \/ config.pgport = 0
                  THEN Exit(EXIT_CODE_BAD_ARGS,
                            "both the --nodename and --pgport options are required")
                  ELSE /\ pc' = "monitor_remove"
                       /\ UNCHANGED <<exitCode, fatal>>
            [] files.config = "PG_AUTOCTL_ROLE_KEEPER" ->
                  IF config.nodename # "" \/ config.pgport # 0
                  THEN Exit(EXIT_CODE_BAD_ARGS,
                            "Only dropping the local node is supported")
                  ELSE \E read \in BOOLEAN :
                          IF ~read
                          THEN Exit(EXIT_CODE_BAD_CONFIG, "keeper_config_read_file")
                          ELSE /\ pc' = cli_drop_local_node_next("enter",
                                                                 dropAndDestroy)
                               /\ UNCHANGED <<exitCode, fatal>>
            [] OTHER ->
                  Exit(EXIT_CODE_BAD_CONFIG, "Unrecognized configuration file")
    /\ UNCHANGED <<files, trace>>
    /\ DropFrame

\* cli_drop_monitor, up to its call of cli_drop_local_node
cli_drop_monitor ==
    /\ command = "drop monitor"
    /\ pc = "run"
    /\ CASE files.config = "missing" ->
               Exit(EXIT_CODE_BAD_CONFIG,
                    "Failed to find expected configuration file")
         [] files.config = "PG_AUTOCTL_ROLE_MONITOR" ->
               \E init \in BOOLEAN, pathnamesSet \in BOOLEAN :
                  IF ~init
                  THEN Exit(EXIT_CODE_BAD_CONFIG,
                            "monitor_config_init_from_pgsetup")
                  ELSE IF ~pathnamesSet
                  THEN Exit(EXIT_CODE_BAD_ARGS,
                            "keeper_config_set_pathnames_from_pgdata")
                  ELSE /\ pc' = cli_drop_local_node_next("enter", dropAndDestroy)
                       /\ UNCHANGED <<exitCode, fatal>>
         [] files.config = "PG_AUTOCTL_ROLE_KEEPER" ->
               Exit(EXIT_CODE_BAD_CONFIG, "Local node is not a monitor")
         [] OTHER ->
               Exit(EXIT_CODE_BAD_CONFIG, "Unrecognized configuration file")
    /\ UNCHANGED <<files, trace>>
    /\ DropFrame

\* cli_drop_node_from_monitor
cli_drop_node_from_monitor ==
    /\ command = "drop node"
    /\ pc = "monitor_remove"
    /\ \E init \in BOOLEAN, removed \in BOOLEAN :
          IF ~init
          THEN /\ Exit(EXIT_CODE_BAD_CONFIG, "monitor_config_init_from_pgsetup")
               /\ UNCHANGED trace
          ELSE Step(removed, "monitor_remove", "done",
                    EXIT_CODE_MONITOR, "monitor_remove")
    /\ UNCHANGED files
    /\ DropFrame

\* cli_drop_local_node: stop the running pg_autoctl
cli_drop_local_node_signal ==
    /\ command \in DropCommands
    /\ pc = "signal"
    /\ LET next == cli_drop_local_node_next("signal", dropAndDestroy)
       IN IF files.pid = "readable"
          THEN \E killed \in BOOLEAN :
                  Step(killed, "SIGQUIT", next, EXIT_CODE_INTERNAL_ERROR,
                       "Failed to send SIGQUIT to the keeper's pid")
          ELSE Skip(next)
    /\ UNCHANGED files
    /\ DropFrame

\* cli_drop_local_node: keeper_remove when there still is a state file
cli_drop_local_node_remove ==
    /\ command \in DropCommands
    /\ pc = "remove"
    /\ LET next == cli_drop_local_node_next("remove", dropAndDestroy)
       IN IF files.state
          THEN \E removed \in BOOLEAN :
                  /\ Step(removed, "keeper_remove", next, EXIT_CODE_BAD_STATE,
                          "Failed to remove local node from the monitor")
                  /\ files' = IF removed THEN [files EXCEPT !.state = FALSE]
                              ELSE files
          ELSE Skip(next) /\ UNCHANGED files
    /\ DropFrame

\* pg_ctl_stop, in cli_drop_local_node or, for --destroy, in
\* stop_postgres_and_remove_pgdata_and_config
cli_drop_local_node_stop ==
    /\ command \in DropCommands
    /\ pc = "stop"
    /\ \E stopped \in BOOLEAN :
          Step(stopped, "pg_ctl_stop",
               cli_drop_local_node_next("stop", dropAndDestroy),
               EXIT_CODE_PGCTL, "Failed to stop PostgreSQL")
    /\ UNCHANGED files
    /\ DropFrame

\* stop_postgres_and_remove_pgdata_and_config: rm -rf PGDATA
cli_drop_local_node_rmtree ==
    /\ command \in DropCommands
    /\ pc = "rmtree"
    /\ LET next == cli_drop_local_node_next("rmtree", dropAndDestroy)
       IN IF files.pgdata
          THEN \E removed \in BOOLEAN :
                  /\ Step(removed, "rmtree", next, EXIT_CODE_INTERNAL_ERROR,
                          "Failed to remove directory")
                  /\ files' = IF removed THEN [files EXCEPT !.pgdata = FALSE]
                              ELSE files
          ELSE Skip(next) /\ UNCHANGED files
    /\ DropFrame

\* stop_postgres_and_remove_pgdata_and_config: remove the configuration file
cli_drop_local_node_unlink ==
    /\ command \in DropCommands
    /\ pc = "unlink"
    /\ \E removed \in BOOLEAN :
          /\ Step(removed, "unlink",
                  cli_drop_local_node_next("unlink", dropAndDestroy),
                  EXIT_CODE_BAD_CONFIG, "unlink_file")
          /\ files' = IF removed THEN [files EXCEPT !.config = "missing"]
                      ELSE files
    /\ DropFrame

\* cli_pg_autoctl_reload mutated: the pid is not checked
cli_pg_autoctl_reload_anyPid(read, pid, killed) ==
    IF read
    THEN IF ~killed
         THEN [return |-> FALSE, signal |-> <<>>,
               error |-> "Failed to send SIGHUP to the pg_autoctl's pid"]
         ELSE [return |-> TRUE, signal |-> <<"SIGHUP">>, error |-> ""]
    ELSE [return |-> TRUE, signal |-> <<>>, error |-> ""]

\* cli_pg_autoctl_reload: read is the result of read_pidfile, pid the pid it
\* read, killed whether kill(pid, SIGHUP) returns 0
cli_pg_autoctl_reload(read, pid, killed) ==
    IF read
    THEN IF pid <= 0
         THEN [return |-> FALSE, signal |-> <<>>,
               error |-> "pid file contains negative-or-zero pid"]
         ELSE IF ~killed
         THEN [return |-> FALSE, signal |-> <<>>,
               error |-> "Failed to send SIGHUP to the pg_autoctl's pid"]
         ELSE [return |-> TRUE, signal |-> <<"SIGHUP">>, error |-> ""]
    ELSE [return |-> TRUE, signal |-> <<>>, error |-> ""]

\* a call of cli_pg_autoctl_reload; its result is the last pc
cli_pg_autoctl_reload_call ==
    /\ command = "cli_pg_autoctl_reload"
    /\ pc = "run"
    /\ \E killed \in BOOLEAN :
          LET r == cli_pg_autoctl_reload(files.pid = "readable", files.pidValue,
                                         killed)
          IN /\ pc' = IF r.return THEN "return true" ELSE "return false"
             /\ trace' = trace \o r.signal
             /\ fatal' = r.error
    /\ UNCHANGED <<exitCode, files>>
    /\ DropFrame

PidValues == {-1, 0, 7}

\* the pid files that cli_pg_autoctl_reload may be given
ReloadFiles ==
    {[NoFiles EXCEPT !.config = "PG_AUTOCTL_ROLE_KEEPER", !.pid = p,
                     !.pidValue = v] :
        p \in {"missing", "unreadable", "readable"}, v \in PidValues}

MaxDropArgs == 3

\* the process is started on a `drop` command, on a command parsed by
\* cli_getopt_pgdata, or gets to call cli_pg_autoctl_reload
DropInit ==
    /\ GroupIdle
    /\ \/ /\ command \in DropCommands
          /\ argv \in CommandLinesOf(DropArguments, MaxDropArgs)
          /\ files \in DropFiles
          /\ pc = "getopts"
       \/ /\ command = "cli_getopt_pgdata"
          /\ argv \in CommandLinesOf(PgdataArguments, MaxDropArgs)
          /\ files \in DropFiles
          /\ pc = "getopts"
       \/ /\ command = "cli_pg_autoctl_reload"
          /\ argv = <<>>
          /\ files \in ReloadFiles
          /\ pc = "run"
    /\ optind = 1
    /\ errors = 0
    /\ sslCommandLineOptions = "SSL_CLI_UNKNOWN"
    /\ ssl_flag = 0
    /\ options = NoOptions
    /\ keeperOptions = NoOptions
    /\ monitorOptions = NoOptions
    /\ exitCode = -1
    /\ fatal = ""
    /\ printVersion = FALSE
    /\ dropAndDestroy = FALSE
    /\ trace = <<>>
    /\ createAndRun = FALSE
    /\ ShowIdle

DropNext ==
    \/ cli_drop_node_getopts_loop
    \/ cli_drop_node_getopts
    \/ cli_getopt_pgdata_loop
    \/ cli_getopt_pgdata
    \/ cli_drop_node
    \/ cli_drop_monitor
    \/ cli_drop_node_from_monitor
    \/ cli_drop_local_node_signal
    \/ cli_drop_local_node_remove
    \/ cli_drop_local_node_stop
    \/ cli_drop_local_node_rmtree
    \/ cli_drop_local_node_unlink
    \/ cli_pg_autoctl_reload_call

DropSpec == DropInit /\ [][DropNext]_vars

(***************************************************************************)
(* The failover control plane of one group.                                *)
(***************************************************************************)
CandidatePriorities == {0, 50}

GroupInit ==
    /\ node = [n \in Nodes |-> NoNode]
    /\ keeper = [n \in Nodes |-> NoKeeper]
    /\ journal = <<>>
    /\ formation \in {[numberSyncStandbys |-> k, failoverAborted |-> FALSE] :
                         k \in 0..MaxSyncStandbys}
    /\ calm = FALSE
    /\ ticks = [n \in Nodes |-> 0]
    /\ CliIdle

\* the environment at large: nodes fail, the monitor cannot be reached,
\* transition actions fail, the operator issues commands
Disrupted == ~calm /\ UNCHANGED <<calm, ticks, cvars>>

GroupNext ==
    \/ \E n \in Nodes, p \in CandidatePriorities, q \in BOOLEAN :
            Disrupted /\ RegisterNode(n, p, q)
    \/ \E n \in Nodes, lsn \in 0..MaxLSN, ok \in BOOLEAN :
            Disrupted /\ KeeperTick(n, lsn, ok)
    \/ \E n \in Nodes : Disrupted /\ KeeperTickMonitorError(n)
    \/ \E n \in Nodes : Disrupted /\ HealthCheck(n)
    \/ \E n \in Nodes : Disrupted /\ PromotionCatchupTimeout(n)
    \/ Disrupted /\ PerformFailover

GroupSpec == GroupInit /\ [][GroupNext]_vars

(***************************************************************************)
(* The control plane in a calm environment: from some moment on (Quiesce)  *)
(* every node is up and heartbeats reach the monitor, every transition     *)
(* action succeeds and no operator command is issued.  The keeper loop of  *)
(* every node keeps ticking: weak fairness of CalmTick.                    *)
(***************************************************************************)
Quiesce ==
    /\ ~calm
    /\ calm' = TRUE
    /\ UNCHANGED <<node, keeper, journal, formation, ticks, cvars>>

CalmTick(n) ==
    /\ calm
    /\ \E lsn \in 0..MaxLSN : KeeperTick(n, lsn, TRUE)
    /\ ticks' = [ticks EXCEPT ![n] =
                    IF node'[n].goalState = node'[n].currentState THEN 0 ELSE @ + 1]
    /\ UNCHANGED <<calm, cvars>>

CalmNext ==
    \/ GroupNext
    \/ Quiesce
    \/ \E n \in Nodes : CalmTick(n)

CalmSpec ==
    /\ GroupInit
    /\ [][CalmNext]_vars
    /\ \A n \in Nodes : WF_vars(CalmTick(n))

(***************************************************************************)
(* Properties of the failover control plane.                               *)
(***************************************************************************)

\* the nodes of the group whose currentState is in the writable set, in the
\* monitor store (the last reported state) and in the keepers' state files
WritableInStore == {n \in Nodes : node[n].registered /\ node[n].currentState \in Writable}
WritableKeepers == {n \in Nodes : node[n].registered /\ keeper[n].currentState \in Writable}

PromotionStep(n) ==
    /\ keeper[n].currentState = "PREPARE_PROMOTION"
    /\ keeper'[n].currentState = "STOP_REPLICATION"

DemotionStates == {"DRAINING", "DEMOTE_TIMEOUT", "DEMOTED"}

OnlyPriorityZeroLeft(s, p) ==
    /\ Registered(s) \ {p} # {}
    /\ \A m \in Registered(s) \ {p} : s[m].candidatePriority = 0

Settled == \A n \in Registered(node) : node[n].goalState = node[n].currentState

\* C4: in a calm environment every node eventually reaches goalState =
\* currentState and the group stays settled, and no node needs more than
\* MaxTicks consecutive ticks of its own that end with a transition pending.
\* (A calm environment stays calm, so that from some moment on the group is
\* settled whenever the environment is calm.)
MaxTicks == 5

NodeActive(st, o) ==
    LET s == RecordObservation(st.node, o)
        g == Decide(s, formation, o.nodeId)
    IN [node |-> CommitGoals(s, g), journal |-> AppendEvents(st.journal, s, g),
        goals |-> g]

Idempotent ==
    \A n \in Registered(node) : \A lsn \in ObservableLSN(n) :
        LET o == Observed(n, lsn)
            first == NodeActive([node |-> node, journal |-> journal], o)
            second == NodeActive(first, o)
        IN /\ second.goals = first.goals
           /\ second.journal = first.journal
           /\ second.node = first.node

GoalChanged == {m \in Nodes : node'[m].registered /\ node'[m].goalState # node[m].goalState}

OneEventPerGoalChange ==
    IF GoalChanged = {} THEN journal' = journal
    ELSE /\ Len(journal') = Cardinality(GoalChanged)
         /\ \A m \in GoalChanged :
              \E i \in 1..Len(journal') :
                  /\ journal'[i].nodeId = m
                  /\ journal'[i].prevState = node[m].goalState
                  /\ journal'[i].newState = node'[m].goalState

QuorumStandbys == {m \in Registered(node) :
                      node[m].replicationQuorum /\ node[m].currentState = "SECONDARY"}

IsStandbyNamesOf(names, S) ==
    /\ Len(names.names) = Cardinality(S)
    /\ Range(names.names) = S
    /\ names.k <= formation.numberSyncStandbys
    /\ names.k <= Cardinality(S)
    /\ names.k = formation.numberSyncStandbys \/ names.k = Cardinality(S)

Terminated == pc \in {"done", "exit"}

Published == keeperOptions # NoOptions \/ monitorOptions # NoOptions

\* the SSL mode that an option selects, SSL_CLI_UNKNOWN for any other option
SSLModeOf(name) ==
    IF name = "ssl-self-signed" THEN "SSL_CLI_SELF_SIGNED"
    ELSE IF name = "no-ssl" THEN "SSL_CLI_NO_SSL"
    ELSE IF name \in {"ssl-ca-file", "ssl-crl-file", "server-cert", "server-key"}
    THEN "SSL_CLI_USER_PROVIDED"
    ELSE "SSL_CLI_UNKNOWN"

SSLModesGiven(args) ==
    {SSLModeOf(args[i].name) : i \in DOMAIN args} \ {"SSL_CLI_UNKNOWN"}

Given(args, names) == {i \in DOMAIN args : args[i].name \in names}

\* --help and --version end the process where they stand
AsksHelpOrVersion(args) == Given(args, {"help", "version"}) # {}

\* apart from its SSL mode options, the command line is one that the parser
\* accepts: known options, a valid --ssl-mode, one authentication choice and,
\* for `create postgres`, either --monitor or --disable-monitor
WellFormedButSSL(cmd, args) ==
    /\ ~AsksHelpOrVersion(args)
    /\ \A i \in DOMAIN args :
          /\ args[i].name \in DOMAIN (IF cmd = "create postgres"
                                      THEN cli_create_postgres_long_options
                                      ELSE cli_create_monitor_long_options)
          /\ args[i].name = "ssl-mode" => args[i].value \in SSLModes
          /\ args[i].name = "monitor" => validate_connection_string(args[i].value)
          /\ args[i].name = "auth" => args[i].value # ""
    /\ Cardinality(Given(args, {"auth", "skip-pg-hba"})) = 1
    /\ cmd = "create postgres" =>
          (Given(args, {"monitor"}) = {}) # (Given(args, {"disable-monitor"}) = {})

\* the parse ended in a check that is not the parser's own
RejectedElsewhere ==
    /\ pc = "exit"
    /\ exitCode = EXIT_CODE_BAD_ARGS
    /\ fatal \in {"pgsetup_validate_ssl_settings",
                  "keeper_config_set_pathnames_from_pgdata"}

\* the parser returned and published its options
Accepted ==
    /\ pc = "done"
    /\ exitCode = -1
    /\ IF command = "create postgres"
       THEN keeperOptions = options /\ monitorOptions = NoOptions
       ELSE monitorOptions = options /\ keeperOptions = NoOptions

\* C8: a command line of `create postgres` or `create monitor` with options
\* of two different SSL modes among --ssl-self-signed, --no-ssl and the
\* user-provided certificate options, in any order, publishes no options and
\* (when it asks neither --help nor --version, which end the process where
\* they stand) exits with code 1; a command line that repeats options of a
\* single mode and is otherwise well formed passes every check of the parser.
MixedSSLModesRejected ==
    /\ Cardinality(SSLModesGiven(argv)) >= 2 =>
          /\ ~Published
          /\ pc # "done"
          /\ (Terminated /\ ~AsksHelpOrVersion(argv)) =>
                exitCode = EXIT_CODE_BAD_ARGS
    /\ (Terminated /\ Cardinality(SSLModesGiven(argv)) = 1
           /\ WellFormedButSSL(command, argv)) =>
          Accepted \/ RejectedElsewhere

\* --ssl-ca-file after --ssl-self-signed: rejected by the parser
MixedSSLModesRejectedWitness ==
    /\ pc = "exit"
    /\ exitCode = EXIT_CODE_BAD_ARGS
    /\ fatal = "commandline_help"
    /\ ~Published
    /\ Len(argv) = 3
    /\ argv[1].name = "auth"
    /\ argv[2].name = "ssl-self-signed"
    /\ argv[3].name = "ssl-ca-file"
    /\ errors = 1
    /\ sslCommandLineOptions = "SSL_CLI_SELF_SIGNED"

SSLModeOptionGiven(args) == Given(args, {"ssl-mode"}) # {}

\* the original statement of C9: a terminated parse of a command line that
\* combines --ssl-mode with --ssl-self-signed or --no-ssl was rejected
SSLModeOptionIsUserProvided ==
    (/\ Terminated
     /\ SSLModeOptionGiven(argv)
     /\ SSLModesGiven(argv) \cap {"SSL_CLI_SELF_SIGNED", "SSL_CLI_NO_SSL"} # {}
     /\ ~AsksHelpOrVersion(argv)) =>
        /\ exitCode = EXIT_CODE_BAD_ARGS
        /\ ~Published

\* a pass of the option loop over --ssl-mode
SSLModeOptionPass ==
    /\ pc = "getopts"
    /\ optind <= Len(argv)
    /\ argv[optind].name = "ssl-mode"
    /\ optind' = optind + 1

\* C9 (amended): --ssl-mode belongs to no SSL mode.  A pass of the option
\* loop over --ssl-mode leaves the accepted SSL mode and ssl.active as they
\* are and counts an error only when its argument is not an sslmode; and a
\* command line that combines valid --ssl-mode options with options of a
\* single SSL mode, --ssl-self-signed and --no-ssl included, and is otherwise
\* well formed passes every check of the parser, which publishes the given
\* sslmode.
SSLModeOptionIsOrthogonal ==
    /\ [][SSLModeOptionPass =>
            /\ sslCommandLineOptions' = sslCommandLineOptions
            /\ options'.ssl.active = options.ssl.active
            /\ options'.ssl.createSelfSignedCert = options.ssl.createSelfSignedCert
            /\ options'.ssl.sslModeStr = argv[optind].value
            /\ errors' = IF argv[optind].value \in SSLModes
                         THEN errors ELSE errors + 1]_vars
    /\ []((/\ Terminated
           /\ SSLModeOptionGiven(argv)
           /\ Cardinality(SSLModesGiven(argv)) = 1
           /\ WellFormedButSSL(command, argv)) =>
              \/ RejectedElsewhere
              \/ /\ Accepted
                 /\ sslCommandLineOptions \in SSLModesGiven(argv)
                 /\ \E i \in Given(argv, {"ssl-mode"}) :
                       options.ssl.sslMode = argv[i].value)

\* --no-ssl before --ssl-mode require: accepted, both are published
SSLModeOptionIsOrthogonalWitness ==
    /\ pc = "done"
    /\ command = "create monitor"
    /\ Len(argv) = 3
    /\ argv[1].name = "skip-pg-hba"
    /\ argv[2].name = "no-ssl"
    /\ argv[3] = Option("ssl-mode", "require")
    /\ monitorOptions.ssl.active = 0
    /\ monitorOptions.ssl.sslMode = "require"
    /\ sslCommandLineOptions = "SSL_CLI_NO_SSL"

\* C10: a command line of `create postgres` or `create monitor` with none
\* of --ssl-self-signed, --no-ssl and the user-provided certificate options
\* never publishes options and (when it asks neither --help nor --version)
\* exits with code 1, whether or not it gives --ssl-mode.
ExplicitSSLChoiceRequired ==
    SSLModesGiven(argv) = {} =>
        /\ ~Published
        /\ pc # "done"
        /\ (Terminated /\ ~AsksHelpOrVersion(argv)) =>
              exitCode = EXIT_CODE_BAD_ARGS

\* --auth and --ssl-mode alone: the parser asks for an explicit SSL choice
ExplicitSSLChoiceRequiredWitness ==
    /\ pc = "exit"
    /\ exitCode = EXIT_CODE_BAD_ARGS
    /\ fatal = "Explicit SSL choice is required"
    /\ errors = 0
    /\ ~Published
    /\ SSLModesGiven(argv) = {}
    /\ \E i \in DOMAIN argv : argv[i] = Option("ssl-mode", "require")
    /\ options.ssl.sslMode = "require"

\* the index in args of the last option named name
LastGiven(args, name) ==
    CHOOSE i \in Given(args, {name}) : \A j \in Given(args, {name}) : j <= i

\* C11: `create postgres` requires exactly one of --monitor and
\* --disable-monitor: a command line with both, or with neither, publishes
\* nothing and (when it asks neither --help nor --version) exits with code 1;
\* when the parser returns, with --disable-monitor the published
\* monitor_pguri is the sentinel postgresql://autoctl_disabled, and with
\* --monitor it is the URI given last, which validate_connection_string
\* accepted.
MonitorOrDisableMonitor ==
    command = "create postgres" =>
        /\ (Given(argv, {"monitor"}) = {}) = (Given(argv, {"disable-monitor"}) = {}) =>
              /\ ~Published
              /\ pc # "done"
              /\ (Terminated /\ ~AsksHelpOrVersion(argv)) =>
                    exitCode = EXIT_CODE_BAD_ARGS
        /\ (pc = "done" /\ Given(argv, {"disable-monitor"}) # {}) =>
              /\ keeperOptions.monitorDisabled
              /\ keeperOptions.monitor_pguri = PG_AUTOCTL_MONITOR_DISABLED
        /\ (pc = "done" /\ Given(argv, {"monitor"}) # {}) =>
              /\ ~keeperOptions.monitorDisabled
              /\ keeperOptions.monitor_pguri = argv[LastGiven(argv, "monitor")].value
              /\ validate_connection_string(keeperOptions.monitor_pguri)

\* --monitor and --disable-monitor on an otherwise complete command line
MonitorOrDisableMonitorWitness ==
    /\ command = "create postgres"
    /\ pc = "exit"
    /\ exitCode = EXIT_CODE_BAD_ARGS
    /\ fatal = "Use either --monitor or --disable-monitor"
    /\ errors = 0
    /\ options.monitorDisabled
    /\ options.monitor_pguri = "postgres://monitor/pg_auto_failover"
    /\ ~Published

\* the options that the parser of a command knows
KnownOptions(cmd) ==
    IF cmd = "create postgres" THEN DOMAIN cli_create_postgres_long_options
    ELSE IF cmd = "create monitor" THEN DOMAIN cli_create_monitor_long_options
    ELSE {}

UnknownGiven(cmd, args) == {i \in DOMAIN args : args[i].name \notin KnownOptions(cmd)}

Effects(es) == {i \in DOMAIN trace : trace[i] \in es}

LocalEffects == {"SIGQUIT", "keeper_remove", "pg_ctl_stop", "rmtree", "unlink"}

\* C12: `drop node` has two exclusive forms chosen by the probed role of the
\* configuration file: a command line with --destroy and --nodename or
\* --pgport never runs; on a monitor node the command only runs with both
\* --nodename and --pgport and has no effect but the removal of the
\* registration of the remote node; on a keeper node a command line with
\* --nodename or --pgport has no effect and exits with code 1 (unless it ends
\* at --help or --version), and no command on a keeper node removes a
\* registration on the monitor.
DropNodeFormsExclusive ==
    LET destroy == Given(argv, {"destroy"}) # {}
        remote == Given(argv, {"nodename", "pgport"}) # {}
        both == Given(argv, {"nodename"}) # {} /\ Given(argv, {"pgport"}) # {}
    IN command = "drop node" =>
          /\ (destroy /\ remote) => (pc \notin {"run", "done"} /\ trace = <<>>)
          /\ files.config = "PG_AUTOCTL_ROLE_MONITOR" =>
                /\ Effects(LocalEffects) = {}
                /\ (pc = "done" \/ trace # <<>>) => both
          /\ files.config # "PG_AUTOCTL_ROLE_MONITOR" =>
                /\ Effects({"monitor_remove"}) = {}
                /\ remote => trace = <<>> /\ pc # "done"
          /\ (files.config = "PG_AUTOCTL_ROLE_KEEPER" /\ remote /\ pc = "exit"
                 /\ ~AsksHelpOrVersion(argv)) =>
                exitCode = EXIT_CODE_BAD_ARGS

DestroyEffects == {"pg_ctl_stop", "rmtree", "unlink"}

\* the original statement of C13: in `drop node --destroy` the node is
\* removed from the monitor only after the local destruction, which begins
\* with the stop of Postgres
DestroyThenDeregister ==
    (command = "drop node" /\ dropAndDestroy) =>
        \A i \in Effects({"keeper_remove"}) :
            \E j \in Effects({"pg_ctl_stop"}) : j < i

\* C13 as amended: in `drop node --destroy` on a keeper node the removal of
\* the node from the monitor (done when a state file exists) comes first and
\* is followed by the local destruction: stop Postgres, remove PGDATA, remove
\* the configuration file, in that order; once the destruction has begun no
\* state file is left.
DeregisterThenDestroy ==
    (command = "drop node" /\ dropAndDestroy) =>
        /\ \A i \in Effects({"keeper_remove"}), j \in Effects(DestroyEffects) : i < j
        /\ \A i \in Effects({"pg_ctl_stop"}), j \in Effects({"rmtree", "unlink"}) : i < j
        /\ \A i \in Effects({"rmtree"}), j \in Effects({"unlink"}) : i < j
        /\ Effects(DestroyEffects) # {} => ~files.state

DeregisterThenDestroyWitness ==
    /\ command = "drop node"
    /\ dropAndDestroy
    /\ pc = "done"
    /\ Effects({"keeper_remove"}) # {}
    /\ Effects({"rmtree"}) # {}
    /\ Effects({"unlink"}) # {}

\* C14: with --destroy, in `drop node` and `drop monitor`, the configuration
\* file is the last thing removed: when it is unlinked nothing follows, the
\* command was given --destroy, Postgres has been stopped, and neither a state
\* file nor PGDATA is left; a run that exits has not removed the
\* configuration file, and the file is only ever missing because this run
\* unlinked it or because it was missing before the run, which then does
\* nothing.
ConfigurationFileRemovedLast ==
    command \in DropCommands =>
        /\ \A i \in Effects({"unlink"}) :
              /\ i = Len(trace)
              /\ dropAndDestroy
              /\ Effects({"pg_ctl_stop"}) # {}
              /\ ~files.state
              /\ ~files.pgdata
        /\ pc = "exit" => Effects({"unlink"}) = {}
        /\ Effects({"unlink"}) = {} =>
              IF files.config = "missing"
              THEN trace = <<>> /\ pc \in {"getopts", "exit"}
              ELSE TRUE
        /\ Effects({"unlink"}) # {} => files.config = "missing" /\ pc = "done"

ConfigurationFileRemovedLastWitness ==
    /\ command = "drop monitor"
    /\ dropAndDestroy
    /\ pc = "exit"
    /\ exitCode = EXIT_CODE_INTERNAL_ERROR
    /\ Effects({"keeper_remove"}) # {}
    /\ Effects({"pg_ctl_stop"}) # {}
    /\ files.config = "PG_AUTOCTL_ROLE_MONITOR"

\* C15: PGDATA is never removed unless Postgres was stopped successfully
\* first: every removal of PGDATA or of the configuration file comes after a
\* successful pg_ctl_stop, a step that changes PGDATA or the configuration
\* file is taken after that stop only, and when pg_ctl_stop fails the command
\* exits with code 16 and has removed neither.
StoppedBeforeRemoved ==
    /\ [](command \in DropCommands =>
            /\ \A i \in Effects({"rmtree", "unlink"}) :
                  \E j \in Effects({"pg_ctl_stop"}) : j < i
            /\ (pc = "exit" /\ fatal = "Failed to stop PostgreSQL") =>
                  /\ exitCode = EXIT_CODE_PGCTL
                  /\ Effects(DestroyEffects) = {})
    /\ [][(files'.pgdata # files.pgdata \/ files'.config # files.config) =>
             Effects({"pg_ctl_stop"}) # {}]_vars

StoppedBeforeRemovedWitness ==
    /\ command = "drop node"
    /\ dropAndDestroy
    /\ pc = "exit"
    /\ exitCode = EXIT_CODE_PGCTL
    /\ fatal = "Failed to stop PostgreSQL"
    /\ files.pgdata
    /\ files.config = "PG_AUTOCTL_ROLE_KEEPER"

\* C16: without --destroy, dropping the local node never removes PGDATA or
\* the configuration file: no step changes them, the only effects of the
\* command are the signal to the running pg_autoctl, the removal of the node
\* from the monitor, which removes the state file and is the only step that
\* does, and the stop of Postgres.
DropPreservesDataAndSetup ==
    /\ []((command \in DropCommands /\ ~dropAndDestroy) =>
             /\ Effects({"rmtree", "unlink"}) = {}
             /\ (files.config # "PG_AUTOCTL_ROLE_MONITOR" \/ command = "drop monitor") =>
                   \A i \in DOMAIN trace :
                      trace[i] \in {"SIGQUIT", "keeper_remove", "pg_ctl_stop"})
    /\ [][~dropAndDestroy' =>
             /\ files'.pgdata = files.pgdata
             /\ files'.config = files.config
             /\ files'.pid = files.pid
             /\ files'.state # files.state =>
                   /\ ~files'.state
                   /\ trace' = Append(trace, "keeper_remove")]_vars

DropPreservesDataAndSetupWitness ==
    /\ command = "drop node"
    /\ ~dropAndDestroy
    /\ pc = "done"
    /\ trace = <<"SIGQUIT", "keeper_remove", "pg_ctl_stop">>
    /\ files.pgdata
    /\ files.config = "PG_AUTOCTL_ROLE_KEEPER"

\* C17: when the local node is dropped and a pid file exists and can be read,
\* SIGQUIT is sent to the running pg_autoctl before any other step: it is the
\* first effect of the command and every other effect follows it; when the
\* signal cannot be sent the command exits with code 17 and has had no effect,
\* no file is changed by a step without an effect.
SignalBeforeAnyOtherStep ==
    /\ [](command \in DropCommands =>
            /\ \A i \in Effects({"SIGQUIT"}) : i = 1
            /\ (files.pid = "readable" /\ Effects(LocalEffects) # {}) =>
                  trace[1] = "SIGQUIT"
            /\ (pc = "exit" /\ fatal = "Failed to send SIGQUIT to the keeper's pid") =>
                  /\ exitCode = EXIT_CODE_INTERNAL_ERROR
                  /\ trace = <<>>)
    /\ [][files' # files => Len(trace') = Len(trace) + 1]_vars

SignalBeforeAnyOtherStepWitness ==
    /\ command = "drop node"
    /\ dropAndDestroy
    /\ pc = "exit"
    /\ exitCode = EXIT_CODE_INTERNAL_ERROR
    /\ fatal = "Failed to send SIGQUIT to the keeper's pid"
    /\ files.state
    /\ files.pgdata

\* C18: cli_pg_autoctl_reload sends SIGHUP to the pid read from the pid file:
\* it never sends a signal to a pid <= 0, returns false exactly when the pid
\* file could be read and either the pid is <= 0 or the signal could not be
\* sent, in both cases without having sent a signal, and returns true without
\* sending any signal when the pid file cannot be read; when it returns true
\* on a pid file it could read, it has sent one SIGHUP.
ReloadSendsSIGHUP ==
    LET read == files.pid = "readable"
    IN command = "cli_pg_autoctl_reload" =>
          /\ pc \in {"run", "return true", "return false"}
          /\ Effects({"SIGHUP"}) # {} =>
                read /\ files.pidValue > 0 /\ trace = <<"SIGHUP">>
          /\ pc = "return false" =>
                /\ read
                /\ trace = <<>>
                /\ \/ files.pidValue <= 0
                   \/ fatal = "Failed to send SIGHUP to the pg_autoctl's pid"
          /\ (pc # "run" /\ read /\ files.pidValue <= 0) => pc = "return false"
          /\ (pc # "run" /\ ~read) => (pc = "return true" /\ trace = <<>>)
          /\ (pc = "return true" /\ read) => trace = <<"SIGHUP">>
          /\ fatal # "" => pc = "return false"

ReloadSendsSIGHUPWitness ==
    /\ command = "cli_pg_autoctl_reload"
    /\ pc = "return false"
    /\ files.pid = "readable"
    /\ files.pidValue = 0
    /\ trace = <<>>

\* C19: a missing configuration file is a BadConfig error: a command that
\* needs the configuration file (one parsed by cli_getopt_pgdata, `drop node`,
\* `drop monitor`) and finds that the file derived from PGDATA does not exist
\* never runs, and exits with code 12.
MissingConfigurationIsBadConfig ==
    (command \in DropCommands \cup {"cli_getopt_pgdata"}) =>
        /\ (files.config = "missing" /\ Effects({"unlink"}) = {}) =>
              pc \in {"getopts", "exit"}
        /\ (pc = "exit" /\ fatal \in {"Expected configuration file does not exists",
                                      "Failed to find expected configuration file"}) =>
              exitCode = EXIT_CODE_BAD_CONFIG

(***************************************************************************)
(* More properties of the parsers of `create postgres` and `create         *)
(* monitor`.                                                               *)
(***************************************************************************)
\* the options that the parser of the command publishes
PublishedOptions ==
    IF command = "create monitor" THEN monitorOptions ELSE keeperOptions

\* C23: `create postgres` and `create monitor` require exactly one
\* authentication choice: a command line with neither --auth nor
\* --skip-pg-hba, with both in either order, or with one of them twice, never
\* has its options published and (when it asks neither --help nor --version)
\* exits with code 1; when the parser returns, with --skip-pg-hba the
\* published authMethod is the skip marker, with --auth it is the given
\* method.
AuthenticationChoiceRequired ==
    LET auth == Given(argv, {"auth"})
        skip == Given(argv, {"skip-pg-hba"})
    IN command \in Commands =>
          /\ Cardinality(auth \cup skip) # 1 =>
                /\ pc # "done"
                /\ ~Published
                /\ (Terminated /\ ~AsksHelpOrVersion(argv)) =>
                      exitCode = EXIT_CODE_BAD_ARGS
          /\ (pc = "done" /\ skip # {}) =>
                PublishedOptions.authMethod = SKIP_HBA_AUTH_METHOD
          /\ (pc = "done" /\ auth # {}) =>
                \E i \in auth : PublishedOptions.authMethod = argv[i].value

\* C30: after every successful parse of a `create postgres` or `create
\* monitor` command line the published SSL settings match the one SSL mode
\* that was accepted: ssl.active is 0 exactly when the mode is --no-ssl and
\* createSelfSignedCert is true exactly when the mode is --ssl-self-signed;
\* an SSL option that is rejected because another mode was accepted before it
\* counts as an error and leaves the SSL settings and the accepted mode as
\* they were.
PublishedSSLMatchesMode ==
    /\ []((command \in Commands /\ pc = "done") =>
             /\ sslCommandLineOptions # "SSL_CLI_UNKNOWN"
             /\ PublishedOptions.ssl.active \in {0, 1}
             /\ PublishedOptions.ssl.active = 0 <=>
                   sslCommandLineOptions = "SSL_CLI_NO_SSL"
             /\ PublishedOptions.ssl.createSelfSignedCert <=>
                   sslCommandLineOptions = "SSL_CLI_SELF_SIGNED")
    /\ [][(/\ command \in Commands
           /\ pc = "getopts"
           /\ optind' = optind + 1
           /\ SSLModeOf(argv[optind].name) # "SSL_CLI_UNKNOWN"
           /\ sslCommandLineOptions \notin {"SSL_CLI_UNKNOWN",
                                            SSLModeOf(argv[optind].name)}) =>
             /\ options'.ssl = options.ssl
             /\ sslCommandLineOptions' = sslCommandLineOptions
             /\ errors' = errors + 1]_vars

PublishedSSLMatchesModeWitness ==
    /\ command = "create postgres"
    /\ pc = "done"
    /\ sslCommandLineOptions = "SSL_CLI_USER_PROVIDED"
    /\ keeperOptions.ssl.active = 1
    /\ ~keeperOptions.ssl.createSelfSignedCert
    /\ keeperOptions.ssl.caFile = "ca.crt"

(***************************************************************************)
(* The pg_autoctl command line: the `show` commands (cli_show.c).          *)
(***************************************************************************)
ShowStateCommands == {"show state", "show events"}

ShowNodesCommands == {"show nodes", "show synchronous_standby_names",
                      "show standby-names"}

ShowCommands ==
    ShowStateCommands \cup ShowNodesCommands \cup {"show uri", "show file"}

cli_show_state_long_options ==
    [name \in {"monitor", "formation", "group", "count", "json", "version",
               "help"} |->
        CASE name = "monitor" -> Long(FALSE, "m")
          [] name = "formation" -> Long(FALSE, "f")
          [] name = "group" -> Long(FALSE, "g")
          [] name = "count" -> Long(FALSE, "n")
          [] name = "json" -> Long(FALSE, "J")
          [] name = "version" -> Long(FALSE, "V")
          [] name = "help" -> Long(FALSE, "h")]

cli_show_nodes_long_options ==
    [name \in {"formation", "group", "json", "version", "help"} |->
        CASE name = "formation" -> Long(FALSE, "f")
          [] name = "group" -> Long(FALSE, "g")
          [] name = "json" -> Long(FALSE, "J")
          [] name = "version" -> Long(FALSE, "V")
          [] name = "help" -> Long(FALSE, "h")]

cli_show_uri_long_options ==
    [name \in {"monitor", "formation", "json", "version", "help"} |->
        CASE name = "monitor" -> Long(FALSE, "m")
          [] name = "formation" -> Long(FALSE, "f")
          [] name = "json" -> Long(FALSE, "J")
          [] name = "version" -> Long(FALSE, "V")
          [] name = "help" -> Long(FALSE, "h")]

cli_show_file_long_options ==
    [name \in {"all", "config", "state", "init", "pid", "contents", "version",
               "help"} |->
        CASE name = "all" -> Long(FALSE, "a")
          [] name = "config" -> Long(FALSE, "c")
          [] name = "state" -> Long(FALSE, "s")
          [] name = "init" -> Long(FALSE, "i")
          [] name = "pid" -> Long(FALSE, "p")
          [] name = "contents" -> Long(FALSE, "C")
          [] name = "version" -> Long(FALSE, "V")
          [] name = "help" -> Long(FALSE, "h")]

ShowStateArguments ==
    {Option("formation", "f1"), Option("group", "1"), Option("group", "-1"),
     Option("group", "abc"), Option("count", "1"), Option("json", ""),
     Option("monitor", ""), Option("help", ""), Option("version", ""),
     Option("bogus", "")}

ShowNodesArguments ==
    {Option("formation", "f1"), Option("group", "1"), Option("group", "-1"),
     Option("group", "abc"), Option("json", ""), Option("help", ""),
     Option("version", ""), Option("bogus", "")}

ShowUriArguments ==
    {Option("monitor", ""), Option("formation", "f1"), Option("formation", ""),
     Option("json", ""), Option("help", ""), Option("version", ""),
     Option("bogus", "")}

ShowFileArguments ==
    {Option("all", ""), Option("config", ""), Option("state", ""),
     Option("init", ""), Option("pid", ""), Option("contents", ""),
     Option("help", ""), Option("version", ""), Option("bogus", "")}

ShowArguments(cmd) ==
    IF cmd \in ShowStateCommands THEN ShowStateArguments
    ELSE IF cmd \in ShowNodesCommands THEN ShowNodesArguments
    ELSE IF cmd = "show uri" THEN ShowUriArguments
    ELSE ShowFileArguments

\* the values that the parsers of `show state` and `show nodes` give to their
\* options before the option loop
ShowOptionDefaults ==
    [NoOptions EXCEPT !.groupId = -1, !.formation = "default"]

\* what an option parser of cli_show.c has assigned so far
Parsed ==
    [options |-> options, errors |-> errors, eventCount |-> eventCount,
     outputJSON |-> outputJSON, uri |-> showUriOptions, file |-> fileOptions,
     exit |-> -1, fatal |-> fatal]

ExitParsed(p, code, message) == [p EXCEPT !.exit = code, !.fatal = message]

\* what the steps of the `show` commands leave alone
ShowFrame ==
    UNCHANGED <<command, argv, sslCommandLineOptions, ssl_flag, monitorOptions,
                printVersion, dropAndDestroy, files, createAndRun, gvars>>

\* one pass of an option loop of cli_show.c, p is the state after the switch
ShowOptionLoop(p) ==
    /\ optind' = optind + 1
    /\ options' = p.options
    /\ errors' = p.errors
    /\ eventCount' = p.eventCount
    /\ outputJSON' = p.outputJSON
    /\ showUriOptions' = p.uri
    /\ fileOptions' = p.file
    /\ IF p.exit = -1
       THEN /\ fatal' = p.fatal
            /\ UNCHANGED <<pc, exitCode>>
       ELSE Exit(p.exit, p.fatal)
    /\ UNCHANGED <<keeperOptions, showFileOptions, trace, query>>
    /\ ShowFrame

\* the end of a parse of cli_show.c: exit, or publish and return
ShowParseEnd(p) ==
    /\ IF p.exit = -1
       THEN /\ keeperOptions' = options
            /\ showFileOptions' = p.file
            /\ pc' = "run"
            /\ UNCHANGED <<exitCode, fatal>>
       ELSE /\ Exit(p.exit, p.fatal)
            /\ UNCHANGED <<keeperOptions, showFileOptions>>
    /\ UNCHANGED <<optind, options, errors, eventCount, outputJSON,
                   showUriOptions, fileOptions, trace, query>>
    /\ ShowFrame

\* cli_show_state_getopts_case mutated: --help is ignored
cli_show_state_getopts_case_ignoresHelp(c, optarg, p) ==
    CASE c = "f" -> [p EXCEPT !.options.formation = optarg]
      [] c = "g" ->
            IF ~stringToInt(optarg).ok
            THEN ExitParsed(p, EXIT_CODE_BAD_ARGS,
                            "--group argument is not a valid group ID")
            ELSE [p EXCEPT !.options.groupId = stringToInt(optarg).number]
      [] c = "n" ->
            IF ~stringToInt(optarg).ok
            THEN ExitParsed(p, EXIT_CODE_BAD_ARGS,
                            "--count argument is not a valid count")
            ELSE [p EXCEPT !.eventCount = stringToInt(optarg).number]
      [] c = "V" -> ExitParsed(p, 0, "keeper_cli_print_version")
      [] c = "h" -> p
      [] c = "J" -> [p EXCEPT !.outputJSON = TRUE]
      [] OTHER -> [p EXCEPT !.errors = @ + 1]

\* the switch of cli_show_state_getopts
cli_show_state_getopts_case(c, optarg, p) ==
    CASE c = "f" -> [p EXCEPT !.options.formation = optarg]
      [] c = "g" ->
            IF ~stringToInt(optarg).ok
            THEN ExitParsed(p, EXIT_CODE_BAD_ARGS,
                            "--group argument is not a valid group ID")
            ELSE [p EXCEPT !.options.groupId = stringToInt(optarg).number]
      [] c = "n" ->
            IF ~stringToInt(optarg).ok
            THEN ExitParsed(p, EXIT_CODE_BAD_ARGS,
                            "--count argument is not a valid count")
            ELSE [p EXCEPT !.eventCount = stringToInt(optarg).number]
      [] c = "V" -> ExitParsed(p, 0, "keeper_cli_print_version")
      [] c = "h" -> ExitParsed(p, EXIT_CODE_QUIT, "commandline_help")
      [] c = "J" -> [p EXCEPT !.outputJSON = TRUE]
      [] OTHER -> [p EXCEPT !.errors = @ + 1]

\* the switch of cli_show_nodes_getopts
cli_show_nodes_getopts_case(c, optarg, p) ==
    CASE c = "f" -> [p EXCEPT !.options.formation = optarg]
      [] c = "g" ->
            IF ~stringToInt(optarg).ok
            THEN ExitParsed(p, EXIT_CODE_BAD_ARGS,
                            "--group argument is not a valid group ID")
            ELSE [p EXCEPT !.options.groupId = stringToInt(optarg).number]
      [] c = "V" -> ExitParsed(p, 0, "keeper_cli_print_version")
      [] c = "h" -> ExitParsed(p, EXIT_CODE_QUIT, "commandline_help")
      [] c = "J" -> [p EXCEPT !.outputJSON = TRUE]
      [] OTHER -> [p EXCEPT !.errors = @ + 1]

\* the switch of cli_show_uri_getopts
cli_show_uri_getopts_case(c, optarg, p) ==
    CASE c = "m" -> [p EXCEPT !.uri.monitorOnly = TRUE]
      [] c = "f" -> [p EXCEPT !.uri.formation = optarg]
      [] c = "V" -> ExitParsed(p, 0, "keeper_cli_print_version")
      [] c = "h" -> ExitParsed(p, EXIT_CODE_QUIT, "commandline_help")
      [] c = "J" -> [p EXCEPT !.outputJSON = TRUE]
      [] OTHER -> ExitParsed(p, EXIT_CODE_BAD_ARGS,
                             "Failed to parse command line")

\* --config, --state, --init and --pid of `show file`: an earlier selection
\* of another file is reported, and the new selection is assigned
ShowFileSelect(selection, p) ==
    [p EXCEPT !.file.selection = selection,
              !.fatal = IF p.file.selection \notin {"SHOW_FILE_UNKNOWN", selection}
                        THEN "Please use only one of --config --state --init --pid"
                        ELSE @]

\* the switch of cli_show_file_getopts
cli_show_file_getopts_case(c, optarg, p) ==
    CASE c = "C" -> [p EXCEPT !.file.showFileContents = TRUE]
      [] c = "a" -> [p EXCEPT !.file.selection = "SHOW_FILE_ALL"]
      [] c = "c" -> ShowFileSelect("SHOW_FILE_CONFIG", p)
      [] c = "s" -> ShowFileSelect("SHOW_FILE_STATE", p)
      [] c = "i" -> ShowFileSelect("SHOW_FILE_INIT", p)
      [] c = "p" -> ShowFileSelect("SHOW_FILE_PID", p)
      [] c = "V" -> ExitParsed(p, 0, "keeper_cli_print_version")
      [] c = "h" -> ExitParsed(p, EXIT_CODE_QUIT, "commandline_help")
      [] OTHER -> ExitParsed(p, EXIT_CODE_BAD_ARGS,
                             "Failed to parse command line")

cli_show_state_getopts_loop ==
    /\ command \in ShowStateCommands
    /\ pc = "getopts"
    /\ optind <= Len(argv)
    /\ ShowOptionLoop(cli_show_state_getopts_case(
           getopt_long(cli_show_state_long_options, argv[optind], ssl_flag).c,
           argv[optind].value, Parsed))

\* cli_show_state_getopts: getopt_long returned -1
cli_show_state_getopts ==
    /\ command \in ShowStateCommands
    /\ pc = "getopts"
    /\ optind > Len(argv)
    /\ ShowParseEnd(IF errors > 0
                    THEN ExitParsed(Parsed, EXIT_CODE_BAD_ARGS, "commandline_help")
                    ELSE Parsed)

cli_show_nodes_getopts_loop ==
    /\ command \in ShowNodesCommands
    /\ pc = "getopts"
    /\ optind <= Len(argv)
    /\ ShowOptionLoop(cli_show_nodes_getopts_case(
           getopt_long(cli_show_nodes_long_options, argv[optind], ssl_flag).c,
           argv[optind].value, Parsed))

\* cli_show_nodes_getopts: getopt_long returned -1
cli_show_nodes_getopts ==
    /\ command \in ShowNodesCommands
    /\ pc = "getopts"
    /\ optind > Len(argv)
    /\ ShowParseEnd(IF errors > 0
                    THEN ExitParsed(Parsed, EXIT_CODE_BAD_ARGS, "commandline_help")
                    ELSE Parsed)

cli_show_uri_getopts_loop ==
    /\ command = "show uri"
    /\ pc = "getopts"
    /\ optind <= Len(argv)
    /\ ShowOptionLoop(cli_show_uri_getopts_case(
           getopt_long(cli_show_uri_long_options, argv[optind], ssl_flag).c,
           argv[optind].value, Parsed))

\* cli_show_uri_getopts: getopt_long returned -1
cli_show_uri_getopts ==
    /\ command = "show uri"
    /\ pc = "getopts"
    /\ optind > Len(argv)
    /\ \E pathnamesSet \in BOOLEAN :
          ShowParseEnd(
             IF showUriOptions.monitorOnly /\ showUriOptions.formation # ""
             THEN ExitParsed(Parsed, EXIT_CODE_BAD_ARGS,
                             "Please use either --monitor or --formation, not both")
             ELSE IF ~pathnamesSet
             THEN ExitParsed(Parsed, EXIT_CODE_BAD_CONFIG,
                             "keeper_config_set_pathnames_from_pgdata")
             ELSE Parsed)

cli_show_file_getopts_loop ==
    /\ command = "show file"
    /\ pc = "getopts"
    /\ optind <= Len(argv)
    /\ ShowOptionLoop(cli_show_file_getopts_case(
           getopt_long(cli_show_file_long_options, argv[optind], ssl_flag).c,
           argv[optind].value, Parsed))

\* cli_show_file_getopts: getopt_long returned -1
cli_show_file_getopts ==
    /\ command = "show file"
    /\ pc = "getopts"
    /\ optind > Len(argv)
    /\ \E pathnamesSet \in BOOLEAN :
          ShowParseEnd(
             IF ~pathnamesSet
             THEN ExitParsed(Parsed, EXIT_CODE_BAD_CONFIG,
                             "keeper_config_set_pathnames_from_pgdata")
             ELSE IF fileOptions.selection = "SHOW_FILE_UNKNOWN"
             THEN [Parsed EXCEPT !.file.selection = "SHOW_FILE_ALL"]
             ELSE Parsed)

\* monitor_init_from_pgsetup: whether a monitor connection was initialised
\* for the node of the given role
monitor_init_from_pgsetup(role, pathnamesSet, configRead, monitorInit) ==
    IF ~pathnamesSet
    THEN FALSE
    ELSE CASE role = "PG_AUTOCTL_ROLE_MONITOR" -> configRead
           [] role = "PG_AUTOCTL_ROLE_KEEPER" -> configRead /\ monitorInit
           [] OTHER -> FALSE

\* the exit code of a guard that lets the node of any role continue
exit_unless_role_is_keeper_anyRole(role, pathnamesSet) ==
    IF ~pathnamesSet THEN EXIT_CODE_BAD_CONFIG ELSE -1

\* the exit code of exit_unless_role_is_keeper, -1 when it returns
exit_unless_role_is_keeper(role, pathnamesSet) ==
    IF ~pathnamesSet
    THEN EXIT_CODE_BAD_CONFIG
    ELSE CASE role = "PG_AUTOCTL_ROLE_MONITOR" -> EXIT_CODE_BAD_CONFIG
           [] role = "PG_AUTOCTL_ROLE_KEEPER" -> -1
           [] OTHER -> EXIT_CODE_BAD_CONFIG

\* the steps of the commands of cli_show.c leave the parsed options alone
ShowCommandFrame ==
    /\ UNCHANGED <<optind, options, errors, keeperOptions, eventCount,
                   outputJSON, showUriOptions, fileOptions, showFileOptions>>
    /\ ShowFrame

\* a call of the monitor for (formation, groupId), printed when it succeeds
MonitorQuery(call, formationName, groupId, ok, message) ==
    /\ query' = [call |-> call, formation |-> formationName, groupId |-> groupId]
    /\ Step(ok, call, "done", EXIT_CODE_MONITOR, message)

\* a command that needs a monitor connection before it calls the monitor
ShowFromMonitor(call, groupId, message) ==
    \E pathnamesSet \in BOOLEAN, configRead \in BOOLEAN, monitorInit \in BOOLEAN,
       ok \in BOOLEAN :
       IF ~monitor_init_from_pgsetup(files.config, pathnamesSet, configRead,
                                     monitorInit)
       THEN /\ Exit(EXIT_CODE_BAD_ARGS, "monitor_init_from_pgsetup")
            /\ UNCHANGED <<trace, query>>
       ELSE MonitorQuery(call, keeperOptions.formation, groupId, ok, message)

cli_show_events ==
    /\ command = "show events"
    /\ pc = "run"
    /\ ShowFromMonitor("monitor_print_last_events", keeperOptions.groupId,
                       "monitor_print_last_events")
    /\ ShowCommandFrame

cli_show_state ==
    /\ command = "show state"
    /\ pc = "run"
    /\ ShowFromMonitor("monitor_print_state", keeperOptions.groupId,
                       "monitor_print_state")
    /\ ShowCommandFrame

cli_show_nodes ==
    /\ command = "show nodes"
    /\ pc = "run"
    /\ ShowFromMonitor("monitor_print_nodes", keeperOptions.groupId,
                       "Failed to get the other nodes from the monitor")
    /\ ShowCommandFrame

\* the group that cli_show_standby_names asks the monitor about
cli_show_standby_names_groupId_asGiven(groupId) == groupId

cli_show_standby_names_groupId(groupId) == IF groupId = -1 THEN 0 ELSE groupId

cli_show_standby_names ==
    /\ command \in {"show synchronous_standby_names", "show standby-names"}
    /\ pc = "run"
    /\ ShowFromMonitor("monitor_synchronous_standby_names",
                       cli_show_standby_names_groupId(keeperOptions.groupId),
                       "Failed to get the synchronous_standby_names setting value")
    /\ ShowCommandFrame

\* cli_show_uri, up to the URI it prints
cli_show_uri ==
    /\ command = "show uri"
    /\ pc = "run"
    /\ \E configRead \in BOOLEAN, uri \in BOOLEAN, monitorInit \in BOOLEAN,
          ok \in BOOLEAN :
          CASE files.config = "PG_AUTOCTL_ROLE_MONITOR" /\ ~configRead ->
                  /\ Exit(EXIT_CODE_PGCTL, "monitor_config_init_from_pgsetup")
                  /\ UNCHANGED <<trace, query>>
            [] files.config = "PG_AUTOCTL_ROLE_MONITOR" /\ configRead /\ ~uri ->
                  /\ Exit(EXIT_CODE_BAD_CONFIG,
                          "Failed to get the monitor connection string")
                  /\ UNCHANGED <<trace, query>>
            [] files.config = "PG_AUTOCTL_ROLE_KEEPER" /\ ~configRead ->
                  /\ Exit(EXIT_CODE_BAD_CONFIG,
                          "keeper_config_read_file_skip_pgsetup")
                  /\ UNCHANGED <<trace, query>>
            [] files.config \in {"PG_AUTOCTL_ROLE_MONITOR",
                                 "PG_AUTOCTL_ROLE_KEEPER"}
               /\ configRead /\ ~monitorInit ->
                  /\ Exit(EXIT_CODE_BAD_CONFIG, "monitor_init")
                  /\ UNCHANGED <<trace, query>>
            [] files.config \notin {"PG_AUTOCTL_ROLE_MONITOR",
                                    "PG_AUTOCTL_ROLE_KEEPER"} ->
                  /\ Exit(EXIT_CODE_INTERNAL_ERROR,
                          "Unrecognized configuration file")
                  /\ UNCHANGED <<trace, query>>
            [] OTHER ->
                  IF showUriOptions.monitorOnly
                  THEN /\ Step(TRUE, "print_monitor_uri", "done", 0, "")
                       /\ UNCHANGED query
                  ELSE IF showUriOptions.formation # ""
                  THEN MonitorQuery("monitor_formation_uri",
                                    showUriOptions.formation, 0, ok,
                                    "monitor_formation_uri")
                  ELSE MonitorQuery("monitor_print_every_formation_uri",
                                    "", 0, ok,
                                    "monitor_print_every_formation_uri")
    /\ ShowCommandFrame

\* one file of `show file`: its path, or its contents when they can be read
ShowOneFile(effect, read, code, message) ==
    Step(~showFileOptions.showFileContents \/ read, effect, "done", code, message)

cli_show_file ==
    /\ command = "show file"
    /\ pc = "run"
    /\ \E read \in BOOLEAN :
          CASE showFileOptions.selection = "SHOW_FILE_ALL" ->
                  Step(TRUE, "show all", "done", 0, "")
            [] showFileOptions.selection = "SHOW_FILE_CONFIG" ->
                  ShowOneFile("show config", read, EXIT_CODE_BAD_CONFIG,
                              "Failed to read configuration file")
            [] showFileOptions.selection = "SHOW_FILE_STATE" ->
                  IF files.config = "PG_AUTOCTL_ROLE_MONITOR"
                  THEN Step(FALSE, "", "", EXIT_CODE_BAD_ARGS,
                            "A monitor has not state file")
                  ELSE ShowOneFile("show state", read, EXIT_CODE_BAD_STATE,
                                   "Failed to read state file")
            [] showFileOptions.selection = "SHOW_FILE_INIT" ->
                  IF files.config = "PG_AUTOCTL_ROLE_MONITOR"
                  THEN Step(FALSE, "", "", EXIT_CODE_BAD_ARGS,
                            "A monitor has not init state file")
                  ELSE ShowOneFile("show init", read, EXIT_CODE_BAD_STATE,
                                   "Failed to read init state file")
            [] showFileOptions.selection = "SHOW_FILE_PID" ->
                  ShowOneFile("show pid", read, EXIT_CODE_INTERNAL_ERROR,
                              "Failed to read pid file")
            [] OTHER ->
                  Step(FALSE, "", "", EXIT_CODE_INTERNAL_ERROR,
                       "Unrecognized configuration file")
    /\ UNCHANGED query
    /\ ShowCommandFrame

\* a keeper-only command, which starts with exit_unless_role_is_keeper
exit_unless_role_is_keeper_call ==
    /\ command = "exit_unless_role_is_keeper"
    /\ pc = "run"
    /\ \E pathnamesSet \in BOOLEAN :
          LET code == exit_unless_role_is_keeper(files.config, pathnamesSet)
          IN IF code = -1
             THEN pc' = "return" /\ UNCHANGED <<exitCode, fatal>>
             ELSE Exit(code, "The command does not apply to this node")
    /\ UNCHANGED <<trace, query>>
    /\ ShowCommandFrame

MaxShowArgs == 2

\* the configuration files that a `show` command may find
ShowFiles ==
    {[config |-> r, state |-> TRUE, pgdata |-> TRUE, pid |-> "readable",
      pidValue |-> 7] : r \in ConfigRoles}

ShowInit ==
    /\ GroupIdle
    /\ \/ /\ command \in ShowStateCommands \cup ShowNodesCommands
          /\ argv \in CommandLinesOf(ShowArguments(command), MaxShowArgs)
          /\ options = ShowOptionDefaults
          /\ pc = "getopts"
       \/ /\ command \in {"show uri", "show file"}
          /\ argv \in CommandLinesOf(ShowArguments(command), MaxShowArgs)
          /\ options = NoOptions
          /\ pc = "getopts"
       \/ /\ command \in {"drop node", "drop monitor"}
          /\ argv \in CommandLinesOf(DropArguments, MaxShowArgs)
          /\ options = NoOptions
          /\ pc = "getopts"
       \/ /\ command = "exit_unless_role_is_keeper"
          /\ argv = <<>>
          /\ options = NoOptions
          /\ pc = "run"
    /\ files \in ShowFiles
    /\ optind = 1
    /\ errors = 0
    /\ sslCommandLineOptions = "SSL_CLI_UNKNOWN"
    /\ ssl_flag = 0
    /\ keeperOptions = NoOptions
    /\ monitorOptions = NoOptions
    /\ exitCode = -1
    /\ fatal = ""
    /\ printVersion = FALSE
    /\ dropAndDestroy = FALSE
    /\ trace = <<>>
    /\ createAndRun = FALSE
    /\ ShowIdle

ShowNext ==
    \/ cli_show_state_getopts_loop
    \/ cli_show_state_getopts
    \/ cli_show_nodes_getopts_loop
    \/ cli_show_nodes_getopts
    \/ cli_show_uri_getopts_loop
    \/ cli_show_uri_getopts
    \/ cli_show_file_getopts_loop
    \/ cli_show_file_getopts
    \/ cli_show_events
    \/ cli_show_state
    \/ cli_show_nodes
    \/ cli_show_standby_names
    \/ cli_show_uri
    \/ cli_show_file
    \/ exit_unless_role_is_keeper_call
    \/ cli_drop_node_getopts_loop
    \/ cli_drop_node_getopts
    \/ cli_drop_node
    \/ cli_drop_monitor
    \/ cli_drop_node_from_monitor
    \/ cli_drop_local_node_signal
    \/ cli_drop_local_node_remove
    \/ cli_drop_local_node_stop
    \/ cli_drop_local_node_rmtree
    \/ cli_drop_local_node_unlink

ShowSpec == ShowInit /\ [][ShowNext]_vars

(***************************************************************************)
(* Properties of the `show` commands and of the dispatch on the role.      *)
(***************************************************************************)
ShowFileOptionNames == {"config", "state", "init", "pid"}

ShowFileEffects == {"show all", "show config", "show state", "show init",
                    "show pid"}

\* the command line selects two different files, or --all and then a file,
\* and has no other option than file selections and --contents
ShowFileConflict ==
    /\ command = "show file"
    /\ \A i \in DOMAIN argv :
          argv[i].name \in ShowFileOptionNames \cup {"all", "contents"}
    /\ \E i, j \in DOMAIN argv :
          /\ i < j
          /\ argv[i].name \in ShowFileOptionNames \cup {"all"}
          /\ argv[j].name \in ShowFileOptionNames
          /\ argv[i].name # argv[j].name

\* C24: a command line of `show file` that selects two different files, or
\* --all and then one file, is rejected: the parser does not return to the
\* command, the exit code is not zero, and no file is shown.
ShowFileSelectsAtMostOne ==
    ShowFileConflict =>
        /\ pc \notin {"run", "done"}
        /\ Effects(ShowFileEffects) = {}
        /\ pc = "exit" => exitCode # 0

StandbyNamesCommands == {"show synchronous_standby_names", "show standby-names"}

\* the monitor has been asked by a command line without --group
AskedWithoutGroup(cmds) ==
    /\ command \in cmds
    /\ Given(argv, {"group"}) = {}
    /\ query # NoQuery

NothingDone == trace = <<>> /\ query = NoQuery

\* the command is at the dispatch on the role of a file that is not its own
WrongRoleDispatch ==
    /\ pc = "run"
    /\ \/ command = "drop monitor" /\ files.config = "PG_AUTOCTL_ROLE_KEEPER"
       \/ /\ command = "exit_unless_role_is_keeper"
          /\ files.config = "PG_AUTOCTL_ROLE_MONITOR"

\* the command is at the dispatch on the role of a file of neither role
UnknownRoleDispatch ==
    /\ pc = "run"
    /\ files.config = "PG_AUTOCTL_ROLE_UNKNOWN"
    /\ command \in {"drop node", "drop monitor", "show uri"}
                       \cup ShowStateCommands \cup ShowNodesCommands

EXIT_CODE_KEEPER == 14

keeper_cli_keeper_setup_long_options ==
    [name \in {"auth", "monitor", "version", "help", "candidate-priority"} |->
        CASE name = "auth" -> Long(FALSE, "A")
          [] name = "monitor" -> Long(FALSE, "m")
          [] name = "version" -> Long(FALSE, "V")
          [] name = "help" -> Long(FALSE, "h")
          [] name = "candidate-priority" -> Long(FALSE, "P")]

\* the arguments of --candidate-priority: 50, 101, -1, abc, 12abc and
\* 4294967346, which is 2^32 + 50
PriorityTexts ==
    {<<"5", "0">>, <<"1", "0", "1">>, <<"-", "1">>, <<"a", "b", "c">>,
     <<"1", "2", "a", "b", "c">>,
     <<"4", "2", "9", "4", "9", "6", "7", "3", "4", "6">>}

CreateArguments ==
    {Option("auth", "trust"), Option("ssl-self-signed", ""),
     Option("disable-monitor", ""),
     Option("monitor", "postgres://monitor/pg_auto_failover"),
     Option("run", ""), Option("help", ""), Option("bogus", "")}
    \cup {Option("candidate-priority", text) : text \in PriorityTexts}

CreateCommands == {"create postgres", "create monitor", "do"}

\* the option loop of cli_create_node_getopts, called by
\* keeper_cli_keeper_setup_getopts
keeper_cli_keeper_setup_getopts_loop ==
    /\ command = "do"
    /\ pc = "getopts"
    /\ optind <= Len(argv)
    /\ LET g == getopt_long(keeper_cli_keeper_setup_long_options, argv[optind],
                            ssl_flag)
       IN \E einval \in BOOLEAN :
             OptionLoop(g, cli_create_node_getopts_case(
                               g.c, g.ssl_flag, argv[optind].value, einval,
                               errors, sslCommandLineOptions, options))

\* keeper_cli_keeper_setup_getopts: getopt_long returned -1
keeper_cli_keeper_setup_getopts ==
    /\ command = "do"
    /\ pc = "getopts"
    /\ optind > Len(argv)
    /\ \E sslValid \in BOOLEAN, pathnamesSet \in BOOLEAN :
          ParseEnd(cli_create_node_getopts_checks(
                       errors, sslCommandLineOptions, options, sslValid,
                       pathnamesSet), keeperOptions)
    /\ UNCHANGED monitorOptions

\* what a function did: the calls that succeeded, in their order, and how it
\* ended: exit is an exit code or -1, next is where the command goes on
Did(calls, exit, message, next) ==
    [calls |-> calls, exit |-> exit, fatal |-> message, next |-> next]

\* a command of cli_create_drop_node.c goes on as the function did
Does(r) ==
    /\ trace' = trace \o r.calls
    /\ IF r.exit = -1
       THEN pc' = r.next /\ UNCHANGED <<exitCode, fatal>>
       ELSE Exit(r.exit, r.fatal)

\* the steps of the `create` commands leave the parsed options alone
CreateFrame ==
    UNCHANGED <<command, argv, optind, errors, sslCommandLineOptions, ssl_flag,
                options, keeperOptions, monitorOptions, printVersion,
                dropAndDestroy, svars, createAndRun, gvars>>

\* cli_create_config mutated: the configuration file is written whether it
\* exists or not
cli_create_config_alwaysWrites(exists, read, merged, written) ==
    IF ~written
    THEN Did(<<"keeper_config_init">>, EXIT_CODE_BAD_CONFIG,
             "Failed to write the pg_autoctl configuration file", "")
    ELSE Did(<<"keeper_config_init", "keeper_config_write_file">>, -1, "",
             "cli_create_pg")

\* cli_create_config: exists is file_exists(config->pathnames.config), the
\* other parameters are the results of the calls
cli_create_config(exists, read, merged, written) ==
    IF exists
    THEN IF ~read
         THEN Did(<<>>, EXIT_CODE_BAD_CONFIG,
                  "Failed to read configuration file", "")
         ELSE IF ~merged
         THEN Did(<<"keeper_config_read_file">>, EXIT_CODE_BAD_CONFIG,
                  "keeper_config_merge_options", "")
         ELSE Did(<<"keeper_config_read_file", "keeper_config_merge_options">>,
                  -1, "", "cli_create_pg")
    ELSE IF ~written
         THEN Did(<<"keeper_config_init">>, EXIT_CODE_BAD_CONFIG,
                  "Failed to write the pg_autoctl configuration file", "")
         ELSE Did(<<"keeper_config_init", "keeper_config_write_file">>, -1, "",
                  "cli_create_pg")

\* cli_create_postgres, up to its call of cli_create_pg
cli_create_postgres ==
    /\ command = "create postgres"
    /\ pc = "done"
    /\ \E nodename \in BOOLEAN, read \in BOOLEAN, merged \in BOOLEAN,
          written \in BOOLEAN :
          LET exists == files.config # "missing"
              r == cli_create_config(exists, read, merged, written)
          IN IF exists
             THEN Does(r) /\ UNCHANGED files
             ELSE IF ~nodename
             THEN /\ Does(Did(<<"NODE_KIND_STANDALONE">>, EXIT_CODE_BAD_ARGS,
                              "check_or_discover_nodename", ""))
                  /\ UNCHANGED files
             ELSE /\ Does([r EXCEPT !.calls =
                              <<"NODE_KIND_STANDALONE",
                                "check_or_discover_nodename">> \o @])
                  /\ files' = IF "keeper_config_write_file" \in Range(r.calls)
                              THEN [files EXCEPT !.config = "PG_AUTOCTL_ROLE_KEEPER"]
                              ELSE files
    /\ CreateFrame

\* cli_create_pg mutated: --run is obeyed in spite of the warnings of
\* keeper_pg_init
cli_create_pg_ignoresWarnings(pgInit, warnings, run, init, service, version) ==
    IF ~pgInit
    THEN Did(<<>>, EXIT_CODE_BAD_STATE, "keeper_pg_init", "")
    ELSE IF ~run
    THEN Did(<<"keeper_pg_init">>, -1, "", "finished")
    ELSE IF ~init
    THEN Did(<<"keeper_pg_init">>, EXIT_CODE_KEEPER, "keeper_init", "")
    ELSE IF ~service
    THEN Did(<<"keeper_pg_init", "keeper_init">>, EXIT_CODE_KEEPER,
             "Failed to initialize pg_auto_failover service", "")
    ELSE IF ~version
    THEN Did(<<"keeper_pg_init", "keeper_init", "keeper_service_init">>,
             EXIT_CODE_MONITOR, "keeper_check_monitor_extension_version", "")
    ELSE Did(<<"keeper_pg_init", "keeper_init", "keeper_service_init",
               "keeper_check_monitor_extension_version">>, -1, "",
             "keeper_node_active_loop")

\* cli_create_pg, up to its call of keeper_node_active_loop: warnings is
\* keeperInitWarnings after keeper_pg_init, run is createAndRun, the other
\* parameters are the results of the calls
cli_create_pg(pgInit, warnings, run, init, service, version) ==
    IF ~pgInit
    THEN Did(<<>>, EXIT_CODE_BAD_STATE, "keeper_pg_init", "")
    ELSE IF warnings \/ ~run
    THEN Did(<<"keeper_pg_init">>, -1, "", "finished")
    ELSE IF ~init
    THEN Did(<<"keeper_pg_init">>, EXIT_CODE_KEEPER, "keeper_init", "")
    ELSE IF ~service
    THEN Did(<<"keeper_pg_init", "keeper_init">>, EXIT_CODE_KEEPER,
             "Failed to initialize pg_auto_failover service", "")
    ELSE IF ~version
    THEN Did(<<"keeper_pg_init", "keeper_init", "keeper_service_init">>,
             EXIT_CODE_MONITOR, "keeper_check_monitor_extension_version", "")
    ELSE Did(<<"keeper_pg_init", "keeper_init", "keeper_service_init",
               "keeper_check_monitor_extension_version">>, -1, "",
             "keeper_node_active_loop")

\* init warnings are what keeper_pg_init reports (keeperInitWarnings)
cli_create_pg_call ==
    /\ command = "create postgres"
    /\ pc = "cli_create_pg"
    /\ \E pgInit \in BOOLEAN, warnings \in BOOLEAN, init \in BOOLEAN,
          service \in BOOLEAN, version \in BOOLEAN :
          LET r == cli_create_pg(pgInit, warnings, createAndRun, init, service,
                                 version)
          IN Does([r EXCEPT !.calls =
                      IF pgInit /\ warnings THEN @ \o <<"keeperInitWarnings">>
                      ELSE @])
    /\ UNCHANGED files
    /\ CreateFrame

\* cli_create_pg: keeper_node_active_loop returns
keeper_node_active_loop ==
    /\ command = "create postgres"
    /\ pc = "keeper_node_active_loop"
    /\ \E ok \in BOOLEAN :
          Does(Did(<<"keeper_node_active_loop">>,
                   IF ok THEN -1 ELSE EXIT_CODE_KEEPER,
                   "keeper_node_active_loop", "finished"))
    /\ UNCHANGED files
    /\ CreateFrame

\* cli_create_monitor, up to its call of monitor_service_run
cli_create_monitor(nodename, r) ==
    IF ~r.pathnamesSet
    THEN Did(<<>>, EXIT_CODE_BAD_ARGS,
             "monitor_config_set_pathnames_from_pgdata", "")
    ELSE LET config ==
                IF r.exists
                THEN IF ~r.read
                     THEN Did(<<>>, EXIT_CODE_BAD_CONFIG,
                              "Failed to read configuration file", "")
                     ELSE IF ~r.merged
                     THEN Did(<<"monitor_config_read_file">>,
                              EXIT_CODE_BAD_CONFIG,
                              "monitor_config_merge_options", "")
                     ELSE Did(<<"monitor_config_read_file",
                                "monitor_config_merge_options">>, -1, "", "")
                ELSE IF nodename = "" /\ ~r.discovered
                THEN Did(<<>>, EXIT_CODE_BAD_ARGS,
                         "Failed to auto-detect the hostname of this machine",
                         "")
                ELSE LET name == IF nodename = "" THEN "discover_nodename"
                                 ELSE "check_nodename"
                     IN IF ~r.written
                        THEN Did(<<name, "monitor_config_init">>,
                                 EXIT_CODE_BAD_CONFIG,
                                 "Failed to write the monitor's configuration file",
                                 "")
                        ELSE Did(<<name, "monitor_config_init",
                                   "monitor_config_write_file">>, -1, "", "")
         IN IF config.exit # -1
            THEN config
            ELSE IF ~r.pgInit
            THEN Did(config.calls \o <<"monitor_init">>, EXIT_CODE_BAD_STATE,
                     "monitor_pg_init", "")
            ELSE IF ~r.run
            THEN Did(config.calls \o <<"monitor_init", "monitor_pg_init">>, -1,
                     "", "finished")
            ELSE IF ~r.service
            THEN Did(config.calls \o <<"monitor_init", "monitor_pg_init">>,
                     EXIT_CODE_INTERNAL_ERROR,
                     "Failed to initialize pg_auto_failover service", "")
            ELSE Did(config.calls \o <<"monitor_init", "monitor_pg_init",
                                       "monitor_service_init">>, -1, "",
                     "monitor_service_run")

cli_create_monitor_call ==
    /\ command = "create monitor"
    /\ pc = "done"
    /\ \E results \in [{"pathnamesSet", "read", "merged", "discovered",
                        "written", "pgInit", "service"} -> BOOLEAN] :
          LET r == cli_create_monitor(
                       monitorOptions.nodename,
                       [exists |-> files.config # "missing",
                        run |-> createAndRun,
                        pathnamesSet |-> results["pathnamesSet"],
                        read |-> results["read"],
                        merged |-> results["merged"],
                        discovered |-> results["discovered"],
                        written |-> results["written"],
                        pgInit |-> results["pgInit"],
                        service |-> results["service"]])
          IN /\ Does(r)
             /\ files' = IF "monitor_config_write_file" \in Range(r.calls)
                         THEN [files EXCEPT !.config = "PG_AUTOCTL_ROLE_MONITOR"]
                         ELSE files
    /\ CreateFrame

\* cli_create_monitor: monitor_service_run returns
monitor_service_run ==
    /\ command = "create monitor"
    /\ pc = "monitor_service_run"
    /\ Does(Did(<<"monitor_service_run">>, -1, "", "finished"))
    /\ UNCHANGED files
    /\ CreateFrame

MaxCreateArgs == 4

\* `create` finds a configuration file or none
CreateFiles ==
    {NoFiles,
     [NoFiles EXCEPT !.config = "PG_AUTOCTL_ROLE_KEEPER"],
     [NoFiles EXCEPT !.config = "PG_AUTOCTL_ROLE_MONITOR"]}

CreateInit ==
    /\ GroupIdle
    /\ command \in CreateCommands
    /\ argv \in CommandLinesOf(CreateArguments, MaxCreateArgs)
    /\ files \in CreateFiles
    /\ files.config = "PG_AUTOCTL_ROLE_KEEPER" => command = "create postgres"
    /\ files.config = "PG_AUTOCTL_ROLE_MONITOR" => command = "create monitor"
    /\ optind = 1
    /\ pc = "getopts"
    /\ errors = 0
    /\ sslCommandLineOptions = "SSL_CLI_UNKNOWN"
    /\ ssl_flag = 0
    /\ options = OptionDefaults(command)
    /\ keeperOptions = NoOptions
    /\ monitorOptions = NoOptions
    /\ exitCode = -1
    /\ fatal = ""
    /\ printVersion = FALSE
    /\ dropAndDestroy = FALSE
    /\ trace = <<>>
    /\ createAndRun = FALSE
    /\ ShowIdle

CreateNext ==
    \/ cli_create_node_getopts_loop
    \/ cli_create_postgres_getopts
    \/ cli_create_monitor_getopts_loop
    \/ cli_create_monitor_getopts
    \/ keeper_cli_keeper_setup_getopts_loop
    \/ keeper_cli_keeper_setup_getopts
    \/ cli_create_postgres
    \/ cli_create_pg_call
    \/ keeper_node_active_loop
    \/ cli_create_monitor_call
    \/ monitor_service_run

CreateSpec == CreateInit /\ [][CreateNext]_vars

(***************************************************************************)
(* Properties of the `create` commands and of the parser of `do`.          *)
(***************************************************************************)
DigitText(d) ==
    CASE d = 0 -> "0" [] d = 1 -> "1" [] d = 2 -> "2" [] d = 3 -> "3"
      [] d = 4 -> "4" [] d = 5 -> "5" [] d = 6 -> "6" [] d = 7 -> "7"
      [] d = 8 -> "8" [] d = 9 -> "9"

\* the decimal text of a natural number
RECURSIVE DecimalText(_)
DecimalText(n) ==
    IF n < 10 THEN <<DigitText(n)>>
    ELSE Append(DecimalText(n \div 10), DigitText(n % 10))

ValidPriorityTexts == {DecimalText(n) : n \in 0..100}

\* the option loop has gone through a --candidate-priority whose argument
\* is not the decimal text of an integer from 0 to 100
InvalidPriorityParsed ==
    \E i \in DOMAIN argv :
       /\ i < optind
       /\ argv[i].name = "candidate-priority"
       /\ argv[i].value \notin ValidPriorityTexts

\* C22: `create postgres` exits with code 1 on every --candidate-priority
\* whose argument is not the decimal text of an integer from 0 to 100, and
\* the candidatePriority it publishes is within 0..100, the default when
\* the option is not given.
CandidatePriorityValidated ==
    command = "create postgres" =>
       /\ InvalidPriorityParsed => pc = "exit" /\ exitCode = EXIT_CODE_BAD_ARGS
       /\ keeperOptions # NoOptions =>
             /\ keeperOptions.candidatePriority \in 0..100
             /\ Given(argv, {"candidate-priority"}) = {} =>
                   keeperOptions.candidatePriority =
                      FAILOVER_NODE_CANDIDATE_PRIORITY

KeeperInitCalls ==
    <<"keeper_pg_init", "keeper_init", "keeper_service_init",
      "keeper_check_monitor_extension_version">>

MonitorInitCalls == <<"monitor_pg_init", "monitor_service_init">>

\* the calls of `calls`, in their order, are the latest effects before the
\* service loop `loop`, whether the command is about to enter it or has
\* entered it
EntersAfter(loop, calls) ==
    /\ pc = loop =>
          /\ Len(trace) >= Len(calls)
          /\ SubSeq(trace, Len(trace) - Len(calls) + 1, Len(trace)) = calls
    /\ \A j \in DOMAIN trace :
          trace[j] = loop =>
             /\ j > Len(calls)
             /\ SubSeq(trace, j - Len(calls), j - 1) = calls

ServiceLoops == {"keeper_node_active_loop", "monitor_service_run"}

\* C26: with --run the service loop is entered only after the whole
\* initialisation succeeded, in a fixed order.  `create postgres` reaches
\* keeper_node_active_loop only with --run, after keeper_pg_init without
\* init warnings, keeper_init, keeper_service_init and the check of the
\* version of the monitor extension, whose failures exit with 13, 14, 14
\* and 15; with init warnings the loop is not entered.  `create monitor`
\* reaches monitor_service_run only with --run, after monitor_pg_init and
\* monitor_service_init.
ServiceLoopAfterInit ==
    /\ [](/\ EntersAfter("keeper_node_active_loop", KeeperInitCalls)
          /\ EntersAfter("monitor_service_run", MonitorInitCalls)
          /\ (pc \in ServiceLoops \/ Range(trace) \cap ServiceLoops # {}) =>
                createAndRun /\ "keeperInitWarnings" \notin Range(trace)
          /\ "keeperInitWarnings" \in Range(trace) =>
                /\ pc = "finished"
                /\ trace[Len(trace) - 1] = "keeper_pg_init")
    /\ [][(pc = "cli_create_pg" /\ pc' = "exit") =>
             \E n \in 0..3 :
                /\ trace' = trace \o SubSeq(KeeperInitCalls, 1, n)
                /\ exitCode' = CASE n = 0 -> EXIT_CODE_BAD_STATE
                                 [] n = 1 -> EXIT_CODE_KEEPER
                                 [] n = 2 -> EXIT_CODE_KEEPER
                                 [] n = 3 -> EXIT_CODE_MONITOR]_vars

ServiceLoopAfterInitWitness ==
    /\ command = "create postgres"
    /\ createAndRun
    /\ pc = "keeper_node_active_loop"
    /\ SubSeq(trace, Len(trace) - 3, Len(trace)) = KeeperInitCalls

IsPrefix(s, t) == Len(s) <= Len(t) /\ SubSeq(t, 1, Len(s)) = s

ExistingConfigCalls ==
    <<"keeper_config_read_file", "keeper_config_merge_options">>

MissingConfigCalls ==
    <<"NODE_KIND_STANDALONE", "check_or_discover_nodename",
      "keeper_config_init", "keeper_config_write_file">>

\* C27: `create postgres` handles the configuration in one of two ways.
\* When the file exists it is read and the options of the command line are
\* merged on top of it, and the nodename is neither checked nor discovered
\* and the file is not written.  When it does not exist the node is marked
\* standalone, the nodename is checked or discovered, and the configuration
\* of the command line is written.  A failure of the read, the merge or the
\* write exits with code 12, and cli_create_pg is reached only when they
\* all succeeded.
ConfigReadOrWritten ==
    [][(command = "create postgres" /\ pc = "done") =>
          LET calls == IF files.config # "missing" THEN ExistingConfigCalls
                       ELSE MissingConfigCalls
          IN /\ trace = <<>>
             /\ IsPrefix(trace', calls)
             /\ pc' = "cli_create_pg" <=> trace' = calls
             /\ pc' # "cli_create_pg" =>
                   /\ pc' = "exit"
                   /\ trace' # <<"NODE_KIND_STANDALONE">> =>
                         exitCode' = EXIT_CODE_BAD_CONFIG
             /\ files'.config =
                   IF files.config = "missing" /\ pc' # "cli_create_pg"
                   THEN "missing" ELSE "PG_AUTOCTL_ROLE_KEEPER"]_vars

ConfigReadOrWrittenWitness ==
    /\ command = "create postgres"
    /\ pc = "cli_create_pg"
    /\ trace = ExistingConfigCalls
    /\ files.config = "PG_AUTOCTL_ROLE_KEEPER"

\* the command line is made of options of the table of
\* keeper_cli_keeper_setup_getopts, with a --auth method, a --monitor URI
\* and --candidate-priority values within 0..100, and asks neither --help
\* nor --version
WellFormedSetup(args) ==
    \A i \in DOMAIN args :
       /\ args[i].name \in DOMAIN keeper_cli_keeper_setup_long_options
                              \ {"help", "version"}
       /\ args[i].name = "auth" => args[i].value # ""
       /\ args[i].name = "monitor" => validate_connection_string(args[i].value)
       /\ args[i].name = "candidate-priority" =>
             args[i].value \in ValidPriorityTexts

\* C28: keeper_cli_keeper_setup_getopts publishes the options it parsed
\* without any check: a command line made only of options of its own table,
\* with well-formed values, never exits in the parser, and when the parse is
\* over its options are published in keeperOptions.
SetupOptionsPublishedUnchecked ==
    (command = "do" /\ WellFormedSetup(argv)) =>
       /\ pc # "exit"
       /\ optind > Len(argv) /\ pc # "getopts" =>
             pc = "done" /\ keeperOptions = options

(***************************************************************************)
(* The pg_autoctl command line: `version`, and every command of the model  *)
(* together.                                                               *)
(***************************************************************************)
cli_print_version_long_options ==
    [name \in {"json", "version", "help"} |->
        CASE name = "json" -> Long(FALSE, "J")
          [] name = "version" -> Long(FALSE, "V")
          [] name = "help" -> Long(FALSE, "h")]

\* the switch of cli_print_version_getopts
cli_print_version_getopts_case(c, optarg, p) ==
    CASE c = "J" -> [p EXCEPT !.outputJSON = TRUE]
      [] c = "h" -> ExitParsed(p, EXIT_CODE_QUIT, "commandline_help")
      [] OTHER -> p

cli_print_version_getopts_loop ==
    /\ command = "version"
    /\ pc = "getopts"
    /\ optind <= Len(argv)
    /\ ShowOptionLoop(cli_print_version_getopts_case(
           getopt_long(cli_print_version_long_options, argv[optind], ssl_flag).c,
           argv[optind].value, Parsed))

\* cli_print_version_getopts: getopt_long returned -1; nothing is published
cli_print_version_getopts ==
    /\ command = "version"
    /\ pc = "getopts"
    /\ optind > Len(argv)
    /\ pc' = "run"
    /\ UNCHANGED <<optind, options, errors, keeperOptions, eventCount,
                   outputJSON, showUriOptions, fileOptions, showFileOptions,
                   exitCode, fatal, trace, query>>
    /\ ShowFrame

keeper_cli_print_version ==
    /\ command = "version"
    /\ pc = "run"
    /\ Step(FALSE, "", "", 0, "keeper_cli_print_version")
    /\ UNCHANGED query
    /\ ShowCommandFrame

\* pg_autoctl is started on a command line of any command of the model
CliSpecInit ==
    \/ CreateInit
    \/ ShowInit
    \/ /\ DropInit
       /\ command = "cli_getopt_pgdata"
       /\ files \in ShowFiles
       /\ Len(argv) <= MaxShowArgs
    \/ /\ GroupIdle
       /\ command = "version"
       /\ argv \in CommandLinesOf(PgdataArguments, MaxShowArgs)
       /\ files = NoFiles
       /\ optind = 1
       /\ pc = "getopts"
       /\ errors = 0
       /\ sslCommandLineOptions = "SSL_CLI_UNKNOWN"
       /\ ssl_flag = 0
       /\ options = NoOptions
       /\ keeperOptions = NoOptions
       /\ monitorOptions = NoOptions
       /\ exitCode = -1
       /\ fatal = ""
       /\ printVersion = FALSE
       /\ dropAndDestroy = FALSE
       /\ trace = <<>>
       /\ createAndRun = FALSE
       /\ ShowIdle

CliSpecNext ==
    \/ cli_create_node_getopts_loop
    \/ cli_create_postgres_getopts
    \/ cli_create_monitor_getopts_loop
    \/ cli_create_monitor_getopts
    \/ keeper_cli_keeper_setup_getopts_loop
    \/ keeper_cli_keeper_setup_getopts
    \/ cli_create_postgres
    \/ cli_create_pg_call
    \/ keeper_node_active_loop
    \/ cli_create_monitor_call
    \/ monitor_service_run
    \/ cli_show_state_getopts_loop
    \/ cli_show_state_getopts
    \/ cli_show_nodes_getopts_loop
    \/ cli_show_nodes_getopts
    \/ cli_show_uri_getopts_loop
    \/ cli_show_uri_getopts
    \/ cli_show_file_getopts_loop
    \/ cli_show_file_getopts
    \/ cli_show_events
    \/ cli_show_state
    \/ cli_show_nodes
    \/ cli_show_standby_names
    \/ cli_show_uri
    \/ cli_show_file
    \/ exit_unless_role_is_keeper_call
    \/ cli_drop_node_getopts_loop
    \/ cli_drop_node_getopts
    \/ cli_drop_node
    \/ cli_drop_monitor
    \/ cli_drop_node_from_monitor
    \/ cli_drop_local_node_signal
    \/ cli_drop_local_node_remove
    \/ cli_drop_local_node_stop
    \/ cli_drop_local_node_rmtree
    \/ cli_drop_local_node_unlink
    \/ cli_getopt_pgdata_loop
    \/ cli_getopt_pgdata
    \/ cli_print_version_getopts_loop
    \/ cli_print_version_getopts
    \/ keeper_cli_print_version

CliSpec == CliSpecInit /\ [][CliSpecNext]_vars

\* the option loop is about to parse --help
ReachesHelp ==
    /\ pc = "getopts"
    /\ optind <= Len(argv)
    /\ argv[optind].name = "help"

\* nothing is published and the command has done nothing
NothingPublished ==
    /\ keeperOptions = NoOptions
    /\ monitorOptions = NoOptions
    /\ showFileOptions = NoFileOptions
    /\ NothingDone

\* C21: in every option parser, when the parse reaches --help the help is
\* printed and the process exits with code 127, nothing is published in
\* keeperOptions or monitorOptions and the command does not run.
HelpQuits ==
    /\ [](pc = "getopts" => NothingPublished)
    /\ []((pc = "exit" /\ exitCode = EXIT_CODE_QUIT) => NothingPublished)
    /\ [][ReachesHelp =>
             /\ pc' = "exit"
             /\ exitCode' = EXIT_CODE_QUIT
             /\ fatal' = "commandline_help"
             /\ NothingPublished']_vars

HelpQuitsWitness ==
    /\ command = "show state"
    /\ argv = <<Option("formation", "f1"), Option("help", "")>>
    /\ options.formation = "f1"
    /\ pc = "exit"
    /\ exitCode = EXIT_CODE_QUIT
    /\ NothingPublished

====
